---- MODULE Spec2Model ----
(***************************************************************************)
(* custos: the allocation cache, the identity counter, the dependency      *)
(* graph and the raw-pointer ownership of the CPU / OpenCL / CUDA devices. *)
(*                                                                         *)
(* An allocation is a pointer id 1..Len(heap); 0 is the null pointer.      *)
(* heap[p].frees counts the backend free calls made on p.                  *)
(***************************************************************************)
EXTENDS Integers, Sequences, FiniteSets, TLC

\* ---- bounds of the model ----
MaxCount == 1      \* the identity counter stays in 0..MaxCount
MaxPtr == 3        \* backend allocations made in one behaviour
MaxBufs == 2       \* Buffer handles alive at the same time
MaxProg == 3       \* operations in the sequence a loop replays
MaxIter == 2       \* iterations a loop runs
MaxFrees == 2      \* free calls followed on one allocation
MaxTape == 2       \* closures on one tape
MaxGrads == 1      \* allocations a backward pass may add beyond MaxPtr
MaxRefs == 2       \* guards of one RefCell that are alive
MaxPending == 1    \* commands waiting on one queue / stream
MaxKernels == 3    \* programs compiled in one behaviour

Devices == {"CPU", "OpenCL", "CUDA"}
CacheDevices == {"CPU", "OpenCL"}
\* The cache compares lengths for equality only and the allocators compare them with 0:
\* the zero length and two different non-zero lengths stand for all lengths.
Lens == {0, 1, 2}
NoNode == 0 - 1

VARIABLES
    count,    \* thread-local identity counter (get_count / set_count / bump_count)
    cache,    \* cache[d]: the entries of device d's Cache.nodes (HashMap<Ident, Rc<Raw>>)
    graph,    \* graph[d]: the node list of device d's Graph
    heap,     \* every backend allocation ever made
    bufs,     \* the Buffer handles that are alive
    ret,      \* what the last call returned
    holders,  \* holders[p]: live copies of the plain {ptr, len} handle of allocation p
    prog,     \* the operation sequence a loop replays
    pc,       \* position in prog (1..Len(prog) + 1)
    iter,     \* number of the running iteration
    first,    \* history: the pointer each slot returned in iteration 1
    base,     \* history: allocations and cache entries at the end of iteration 1
    grad_fns, \* grad_fns[d]: the closures on the Tape of device d, in insertion order
    grads,    \* grads[d]: the entries of the gradient cache (Tape.grads.cache) of device d
    borrow,   \* borrow[d][c]: the borrow flag of the RefCell c of device d
    refs,     \* refs[d][c]: the Ref / RefMut guards of that RefCell that are alive
    CUDA_CACHE, \* the entries of the thread-local CudaCache.nodes
    ptrs,     \* ptrs[i]: the allocations InternCudaDevice instance i keeps track of
    data,     \* data[p]: the elements stored in allocation p
    pending,  \* pending[d]: commands on the queue / stream of device d that have not run
    nograph,  \* the same calls made on a CPU device whose graph callbacks are empty
    kernel_cache, \* kernel_cache[d]: the entries of the kernel cache of device d
    programs  \* every program compiled so far; a kernel handle is its position

loopVars == <<prog, pc, iter, first, base>>
tapeVars == <<grad_fns, grads>>
cellVars == <<borrow, refs>>
cudaVars == <<CUDA_CACHE, ptrs>>
extVars == <<data, pending, nograph, kernel_cache, programs>>
vars == <<count, cache, graph, heap, bufs, ret, holders, prog, pc, iter, first, base,
          grad_fns, grads, borrow, refs, CUDA_CACHE, ptrs, data, pending, nograph,
          kernel_cache, programs>>

\* ---- values ----
NullBuf == [ptr |-> 0, host |-> 0, len |-> 0, flag |-> "None", dev |-> "none", node |-> NoNode]
NoReturn == [op |-> "none", kind |-> "none", hit |-> FALSE, err |-> "", buf |-> NullBuf]
Returned(op, b, hit) == [op |-> op, kind |-> "buffer", hit |-> hit, err |-> "", buf |-> b]
Failed(op, kind, e) == [op |-> op, kind |-> kind, hit |-> FALSE, err |-> e, buf |-> NullBuf]

\* Tape::default(): no closure and an empty gradient cache.
Tape_new ==
    /\ grad_fns = [d \in Devices |-> <<>>]
    /\ grads = [d \in Devices |-> {}]

\* The RefCells of a device struct and the guards handed out for them.
Cells == {"cache", "graph", "tape"}
UNUSED == 0
WRITING == 0 - 1

\* RefCell::new / Default: not borrowed.
RefCell_new ==
    /\ borrow = [d \in Devices |-> [c \in Cells |-> UNUSED]]
    /\ refs = [d \in Devices |-> [c \in Cells |-> [mut |-> 0, shared |-> 0]]]

\* The InternCudaDevice instances of the thread.
CudaInstances == {"cu1", "cu2"}

\* thread_local CUDA_CACHE: no node; no instance has allocated.
CudaCache_new ==
    /\ CUDA_CACHE = {}
    /\ ptrs = [i \in CudaInstances |-> {}]

\* CPU::new() / set_count(0) for the device without graph callbacks: nothing cached,
\* nothing allocated. twin[b] is the allocation that stands for Buffer b there.
NoGraph_new == [count |-> 0, cache |-> {}, heap |-> <<>>, data |-> <<>>, twin |-> <<>>]

\* No element is stored and no command is enqueued.
Ext_new ==
    /\ data = <<>>
    /\ pending = [d \in Devices |-> <<>>]
    /\ nograph = NoGraph_new
    /\ kernel_cache = [d \in Devices |-> {}]
    /\ programs = <<>>

\* ---- identity counter ----
\* Ident::new(len): the current count and the length; the count is not advanced.
Ident_new(len) == [idx |-> count, len |-> len]

bump_count == count + 1

\* ---- backend allocators ----
\* Box / Vec allocation, clCreateBuffer, cuMemAlloc: one more allocation on the heap.
malloc(h, d, len) == Append(h, [len |-> len, dev |-> d, frees |-> 0])

\* Box::from_raw drop, clReleaseMemObject, cuMemFree.
free(h, p) == [h EXCEPT ![p].frees = @ + 1]

\* clCreateBuffer refuses a buffer of size 0 (CL_INVALID_BUFFER_SIZE).
create_buffer(len) == IF len = 0 THEN "DriverError" ELSE "ok"

\* cuMemAlloc refuses a size of 0 (CUDA_ERROR_INVALID_VALUE).
cumalloc(len) == IF len = 0 THEN "DriverError" ELSE "ok"

\* Alloc::alloc for CPU: assert!(len > 0, "invalid buffer len: 0").
CPU_alloc(len) == IF len > 0 THEN "ok" ELSE "InvalidLength"

\* Alloc::alloc for OpenCL: the same assertion, then create_buffer(..).unwrap().
OpenCL_alloc(len) == IF len > 0 THEN create_buffer(len) ELSE "InvalidLength"

\* Alloc::alloc for CUDA: cumalloc(len).unwrap(), no check of len.
CUDA_alloc(len) == cumalloc(len)

Device_alloc(d, len) ==
    IF d = "CPU" THEN CPU_alloc(len)
    ELSE IF d = "OpenCL" THEN OpenCL_alloc(len)
    ELSE CUDA_alloc(len)

\* Alloc::with_slice for CPU: assert!(!data.is_empty(), "invalid buffer len: 0").
CPU_with_slice(len) == IF len > 0 THEN "ok" ELSE "InvalidLength"

\* Alloc::with_slice for OpenCL: create_buffer(.., data.len(), Some(data)).unwrap().
OpenCL_with_slice(len) == create_buffer(len)

\* Alloc::with_slice for CUDA: cumalloc(data.len()).unwrap(), then cu_write.
CUDA_with_slice(len) == cumalloc(len)

Device_with_slice(d, len) ==
    IF d = "CPU" THEN CPU_with_slice(len)
    ELSE IF d = "OpenCL" THEN OpenCL_with_slice(len)
    ELSE CUDA_with_slice(len)

\* Alloc::alloc_with_vec for CPU: assert!(!vec.is_empty(), "invalid buffer len: 0").
CPU_alloc_with_vec(len) == IF len > 0 THEN "ok" ELSE "InvalidLength"

\* Alloc::alloc_with_vec: CPU overrides it, the other devices keep the default,
\* which passes the vector on as a slice.
Device_alloc_with_vec(d, len) ==
    IF d = "CPU" THEN CPU_alloc_with_vec(len) ELSE Device_with_slice(d, len)

\* ---- graph ----
\* A graph that numbers every node 0.
Graph_add_unnumbered(g, len, deps) == Append(g, [idx |-> 0, deps |-> deps, len |-> len])

\* Graph::add / add_leaf: append one node, its idx is the position in the list.
Graph_add(g, len, deps) == Append(g, [idx |-> Len(g), deps |-> deps, len |-> len])

\* ---- cache map ----
\* A lookup that never finds the key.
CacheLookup_never(c, ident) == {}

\* HashMap::get(&ident): the entries stored under the key.
CacheLookup(c, ident) == {e \in c : e.ident = ident}

\* An insert that stores nothing.
HashMap_insert_lost(c, ident, raw) == c

\* An insert that keeps the entry already stored under the key.
HashMap_insert_keep(c, ident, raw) ==
    c \cup {[ident |-> ident, ptr |-> raw.ptr, host |-> raw.host,
             len |-> raw.len, node |-> raw.node]}

\* An insert keyed by the count alone: it evicts every entry of the same count.
HashMap_insert_by_count(c, ident, raw) ==
    {e \in c : e.ident.idx # ident.idx} \cup {[ident |-> ident, ptr |-> raw.ptr,
                                              host |-> raw.host, len |-> raw.len,
                                              node |-> raw.node]}

\* HashMap::insert(ident, raw): the entry under the key is replaced.
HashMap_insert(c, ident, raw) ==
    {e \in c : e.ident # ident} \cup {[ident |-> ident, ptr |-> raw.ptr, host |-> raw.host,
                                       len |-> raw.len, node |-> raw.node]}

\* A destruct that hands out the host pointer of the entry in place of its pointer.
destruct_host(d, e, flag) ==
    [ptr |-> e.host, host |-> e.host, len |-> e.len, flag |-> flag, dev |-> d, node |-> e.node]

\* A destruct that drops the flag it is given and hands the entry out as owned.
destruct_owned(d, e, flag) ==
    [ptr |-> e.ptr, host |-> e.host, len |-> e.len, flag |-> "None", dev |-> d, node |-> e.node]

\* RawConv::destruct(ct, flag): the typed pointer of a cache entry, and its node.
destruct(d, e, flag) ==
    [ptr |-> e.ptr, host |-> e.host, len |-> e.len, flag |-> flag, dev |-> d, node |-> e.node]

\* Drop for RawCL / RawCUBuf / RawCpuBuf: the backend free of every dropped entry.
RECURSIVE Raw_drop(_, _)
Raw_drop(h, dropped) ==
    IF dropped = {} THEN h
    ELSE LET e == CHOOSE x \in dropped : TRUE
         IN Raw_drop(free(h, e.ptr), dropped \ {e})

\* An add_node that stores the allocation under the index of its graph node in place
\* of the count.
add_node_by_node(d, ident, deps) ==
    LET p == Len(heap) + 1
        gnode == Len(graph[d])
        raw == [ptr |-> p, host |-> 0, len |-> ident.len, node |-> gnode]
        out == [ptr |-> p, host |-> 0, len |-> ident.len, flag |-> "Cache",
                dev |-> d, node |-> gnode]
    IN /\ heap' = malloc(heap, d, ident.len)
       /\ graph' = [graph EXCEPT ![d] = Graph_add(@, ident.len, deps)]
       /\ cache' = [cache EXCEPT ![d] = HashMap_insert(@, [idx |-> gnode, len |-> ident.len], raw)]
       /\ count' = bump_count
       /\ ret' = Returned("get", out, FALSE)
       /\ bufs' = bufs \cup {out}

\* Cache::add_node: allocate, register the graph node, insert, bump the count.
add_node(d, ident, deps) ==
    LET res == Device_alloc(d, ident.len)
        p == Len(heap) + 1
        gnode == Len(graph[d])
        raw == [ptr |-> p, host |-> 0, len |-> ident.len, node |-> gnode]
        out == [ptr |-> p, host |-> 0, len |-> ident.len, flag |-> "Cache",
                dev |-> d, node |-> gnode]
    IN IF res # "ok"
       THEN /\ ret' = Failed("get", "panic", res)
            /\ UNCHANGED <<count, cache, graph, heap, bufs>>
       ELSE /\ heap' = malloc(heap, d, ident.len)
            /\ graph' = [graph EXCEPT ![d] = Graph_add(@, ident.len, deps)]
            /\ cache' = [cache EXCEPT ![d] = HashMap_insert(@, ident, raw)]
            /\ count' = bump_count
            /\ ret' = Returned("get", out, FALSE)
            /\ bufs' = bufs \cup {out}

\* Cache::get(device, len, add_node).
Cache_get(d, len, deps) ==
    LET ident == Ident_new(len)
        found == CacheLookup(cache[d], ident)
    IN IF found # {}
       THEN LET out == destruct(d, CHOOSE e \in found : TRUE, "Cache")
            IN /\ count' = bump_count
               /\ ret' = Returned("get", out, TRUE)
               /\ bufs' = bufs \cup {out}
               /\ UNCHANGED <<cache, graph, heap>>
       ELSE add_node(d, ident, deps)

\* A to_unified that numbers the entries of the OpenCL cache by themselves: the
\* Ident is the number of entries the cache holds, not the count of the thread.
to_unified_own_count(h, c, no_drop, graph_node) ==
    LET p == Len(h) + 1
        ident == [idx |-> Cardinality(c), len |-> no_drop.len]
        old_ptr == CacheLookup(c, ident)
        raw == [ptr |-> p, host |-> no_drop.ptr, len |-> no_drop.len, node |-> graph_node]
    IN [heap |-> Raw_drop(malloc(h, "OpenCL", no_drop.len), old_ptr),
        cache |-> HashMap_insert(c, ident, raw),
        ptr |-> p]

\* to_unified(device, no_drop, graph_node): an OpenCL buffer bound to the host pointer
\* of no_drop is created and inserted at Ident::new(no_drop.len()); the entry that was
\* stored there is dropped. Yields the new heap, the new cache map and the pointer.
\* (create_buffer succeeds: a CPU buffer has at least one element.)
to_unified(h, c, no_drop, graph_node) ==
    LET p == Len(h) + 1
        ident == Ident_new(no_drop.len)
        old_ptr == CacheLookup(c, ident)
        raw == [ptr |-> p, host |-> no_drop.ptr, len |-> no_drop.len, node |-> graph_node]
    IN [heap |-> Raw_drop(malloc(h, "OpenCL", no_drop.len), old_ptr),
        cache |-> HashMap_insert(c, ident, raw),
        ptr |-> p]

\* A construct_buffer without the test of the flag.
construct_buffer_unchecked(no_drop) ==
    LET ident == Ident_new(no_drop.len)
        found == CacheLookup(cache["OpenCL"], ident)
        rest == bufs \ {no_drop}
    IN IF found # {}
       THEN LET rawcl == CHOOSE e \in found : TRUE
                out == [ptr |-> rawcl.ptr, host |-> rawcl.host, len |-> no_drop.len,
                        flag |-> no_drop.flag, dev |-> "OpenCL", node |-> rawcl.node]
            IN /\ ret' = Returned("construct_buffer", out, TRUE)
               /\ bufs' = rest \cup {out}
               /\ UNCHANGED <<count, cache, graph, heap>>
       ELSE LET graph_node == Len(graph["OpenCL"])
                u == to_unified(heap, cache["OpenCL"], no_drop, graph_node)
                out == [ptr |-> u.ptr, host |-> no_drop.ptr, len |-> no_drop.len,
                        flag |-> "Cache", dev |-> "OpenCL", node |-> graph_node]
            IN /\ graph' = [graph EXCEPT !["OpenCL"] = Graph_add(@, no_drop.len, {})]
               /\ heap' = u.heap
               /\ cache' = [cache EXCEPT !["OpenCL"] = u.cache]
               /\ count' = bump_count
               /\ ret' = Returned("construct_buffer", out, FALSE)
               /\ bufs' = rest \cup {out}

\* construct_buffer(device, no_drop, add_node): a CPU buffer becomes an OpenCL buffer
\* on the same host memory. no_drop is moved into the call.
construct_buffer(no_drop) ==
    LET ident == Ident_new(no_drop.len)
        found == CacheLookup(cache["OpenCL"], ident)
        rest == bufs \ {no_drop}
    IN IF no_drop.flag = "None"
       THEN /\ ret' = Failed("construct_buffer", "err", "ConstructError")
            /\ bufs' = rest
            /\ heap' = free(heap, no_drop.ptr)
            /\ UNCHANGED <<count, cache, graph>>
       ELSE IF found # {}
       THEN LET rawcl == CHOOSE e \in found : TRUE
                out == [ptr |-> rawcl.ptr, host |-> rawcl.host, len |-> no_drop.len,
                        flag |-> no_drop.flag, dev |-> "OpenCL", node |-> rawcl.node]
            IN /\ ret' = Returned("construct_buffer", out, TRUE)
               /\ bufs' = rest \cup {out}
               /\ UNCHANGED <<count, cache, graph, heap>>
       ELSE LET graph_node == Len(graph["OpenCL"])
                u == to_unified(heap, cache["OpenCL"], no_drop, graph_node)
                out == [ptr |-> u.ptr, host |-> no_drop.ptr, len |-> no_drop.len,
                        flag |-> "Cache", dev |-> "OpenCL", node |-> graph_node]
            IN /\ graph' = [graph EXCEPT !["OpenCL"] = Graph_add(@, no_drop.len, {})]
               /\ heap' = u.heap
               /\ cache' = [cache EXCEPT !["OpenCL"] = u.cache]
               /\ count' = bump_count
               /\ ret' = Returned("construct_buffer", out, FALSE)
               /\ bufs' = rest \cup {out}

\* ---- actions ----
\* The entry a lookup of Ident::new(len) finds in device d's cache, if any.
Present(d, len) == \E e \in cache[d] : e.ident = [idx |-> count, len |-> len]

\* CacheBuf::cached(len) on a CPU or OpenCL device.
Cached(d, len) ==
    /\ count < MaxCount
    /\ Cardinality(bufs) < MaxBufs
    /\ Present(d, len) \/ Len(heap) < MaxPtr
    /\ Cache_get(d, len, {})
    /\ UNCHANGED <<holders, loopVars, tapeVars, cellVars, cudaVars, extVars>>

\* set_count(v)
SetCount(v) ==
    /\ v # count
    /\ count' = v
    /\ ret' = NoReturn
    /\ UNCHANGED <<cache, graph, heap, bufs, holders, loopVars, tapeVars, cellVars, cudaVars, extVars>>

\* Drop for Buffer: flag None frees the allocation, flag Cache leaves it to the cache.
DropBuffer(b) ==
    /\ b \in bufs
    /\ bufs' = bufs \ {b}
    /\ heap' = IF b.flag = "None" THEN free(heap, b.ptr) ELSE heap
    /\ ret' = NoReturn
    /\ UNCHANGED <<count, cache, graph, holders, loopVars, tapeVars, cellVars, cudaVars, extVars>>

\* construct_buffer on a live CPU buffer.
ConstructBuffer(b) ==
    /\ b \in bufs
    /\ b.dev = "CPU"
    /\ count < MaxCount
    /\ Present("OpenCL", b.len) \/ b.flag = "None" \/ Len(heap) < MaxPtr
    /\ construct_buffer(b)
    /\ UNCHANGED <<holders, loopVars, tapeVars, cellVars, cudaVars, extVars>>

\* to_unified called directly (it is public): the caller wraps the returned pointer
\* in a Buffer with flag Cache and the default node.
ToUnified(b) ==
    /\ b \in bufs
    /\ b.dev = "CPU"
    /\ Len(heap) < MaxPtr
    /\ LET u == to_unified(heap, cache["OpenCL"], b, NoNode)
           out == [ptr |-> u.ptr, host |-> b.ptr, len |-> b.len, flag |-> "Cache",
                   dev |-> "OpenCL", node |-> NoNode]
       IN /\ heap' = u.heap
          /\ cache' = [cache EXCEPT !["OpenCL"] = u.cache]
          /\ bufs' = (bufs \ {b}) \cup {out}
          /\ ret' = Returned("to_unified", out, FALSE)
          /\ UNCHANGED <<count, graph, holders, loopVars, tapeVars, cellVars, cudaVars, extVars>>

Init ==
    /\ count = 0
    /\ cache = [d \in Devices |-> {}]
    /\ graph = [d \in Devices |-> <<>>]
    /\ heap = <<>>
    /\ bufs = {}
    /\ ret = NoReturn
    /\ holders = <<>>
    /\ prog = <<>>
    /\ pc = 1
    /\ iter = 1
    /\ first = <<>>
    /\ base = [allocs |-> 0, entries |-> 0]
    /\ Tape_new
    /\ RefCell_new
    /\ CudaCache_new
    /\ Ext_new

Next ==
    \/ \E d \in CacheDevices, len \in Lens : Cached(d, len)
    \/ \E v \in 0..MaxCount : SetCount(v)
    \/ \E b \in bufs : DropBuffer(b)
    \/ \E b \in bufs : ConstructBuffer(b)
    \/ \E b \in bufs : ToUnified(b)

Spec == Init /\ [][Next]_vars

\* ---- owned buffers on the three devices ----
\* A Buffer built on a fresh allocation: flag None and a leaf node of the graph.
\* res is what the allocator answered.
OwnedBuffer(op, d, len, res) ==
    LET p == Len(heap) + 1
        out == [ptr |-> p, host |-> 0, len |-> len, flag |-> "None", dev |-> d,
                node |-> Len(graph[d])]
    IN IF res # "ok"
       THEN /\ ret' = Failed(op, "panic", res)
            /\ UNCHANGED <<count, cache, graph, heap, bufs>>
       ELSE /\ heap' = malloc(heap, d, len)
            /\ graph' = [graph EXCEPT ![d] = Graph_add(@, len, {})]
            /\ bufs' = bufs \cup {out}
            /\ ret' = Returned(op, out, FALSE)
            /\ UNCHANGED <<count, cache>>

\* Buffer::new(device, len): device.alloc(len) wrapped in a Buffer.
BufferNew(d, len) ==
    /\ Len(heap) < MaxPtr
    /\ Cardinality(bufs) < MaxBufs
    /\ OwnedBuffer("alloc", d, len, Device_alloc(d, len))
    /\ UNCHANGED <<holders, loopVars, tapeVars, cellVars, cudaVars, extVars>>

\* Buffer::from((device, slice)): device.with_slice(slice) wrapped in a Buffer.
BufferFrom(d, len) ==
    /\ Len(heap) < MaxPtr
    /\ Cardinality(bufs) < MaxBufs
    /\ OwnedBuffer("with_slice", d, len, Device_with_slice(d, len))
    /\ UNCHANGED <<holders, loopVars, tapeVars, cellVars, cudaVars, extVars>>

\* Buffer::from((device, vec)): device.alloc_with_vec(vec) wrapped in a Buffer.
BufferFromVec(d, len) ==
    /\ Len(heap) < MaxPtr
    /\ Cardinality(bufs) < MaxBufs
    /\ OwnedBuffer("alloc_with_vec", d, len, Device_alloc_with_vec(d, len))
    /\ UNCHANGED <<holders, loopVars, tapeVars, cellVars, cudaVars, extVars>>

\* CacheBuf::cached(len) on any of the three devices.
DeviceCached(d, len) ==
    /\ count < MaxCount
    /\ Cardinality(bufs) < MaxBufs
    /\ Len(heap) < MaxPtr
    /\ Cache_get(d, len, {})
    /\ UNCHANGED <<holders, loopVars, tapeVars, cellVars, cudaVars, extVars>>

NextAlloc ==
    \/ \E d \in Devices, len \in Lens : BufferNew(d, len)
    \/ \E d \in Devices, len \in Lens : BufferFrom(d, len)
    \/ \E d \in Devices, len \in Lens : BufferFromVec(d, len)
    \/ \E d \in Devices, len \in Lens : DeviceCached(d, len)
    \/ \E b \in bufs : DropBuffer(b)

SpecAlloc == Init /\ [][NextAlloc]_vars

\* ---- plain {ptr, len} handles, freed by hand ----
\* Device::alloc for CPU, wrapped by Buffer::new: a boxed slice of len elements whose
\* raw pointer goes into a handle; the length is not checked.
Device_alloc_raw(len) ==
    /\ Len(heap) < MaxPtr
    /\ heap' = malloc(heap, "CPU", len)
    /\ holders' = Append(holders, 1)
    /\ ret' = NoReturn
    /\ UNCHANGED <<count, cache, graph, bufs, loopVars, tapeVars, cellVars, cudaVars, extVars>>

\* The handle is Copy: a use by value leaves the original usable next to the copy.
CopyHandle(p) ==
    /\ holders[p] > 0
    /\ holders[p] < MaxBufs
    /\ holders' = [holders EXCEPT ![p] = @ + 1]
    /\ ret' = NoReturn
    /\ UNCHANGED <<count, cache, graph, heap, bufs, loopVars, tapeVars, cellVars, cudaVars, extVars>>

\* CPU::drop(buf): Box::from_raw(buf.ptr) is dropped, whatever happened to buf.ptr before.
CPU_drop(p) ==
    /\ holders[p] > 0
    /\ heap[p].frees < MaxFrees
    /\ holders' = [holders EXCEPT ![p] = @ - 1]
    /\ heap' = free(heap, p)
    /\ ret' = NoReturn
    /\ UNCHANGED <<count, cache, graph, bufs, loopVars, tapeVars, cellVars, cudaVars, extVars>>

\* VecRead::read(&self, buf): the handle is taken by value and goes out of scope at
\* the end of the call; a handle has no Drop, nothing is freed.
VecRead_read(p) ==
    /\ holders[p] > 0
    /\ holders' = [holders EXCEPT ![p] = @ - 1]
    /\ ret' = NoReturn
    /\ UNCHANGED <<count, cache, graph, heap, bufs, loopVars, tapeVars, cellVars, cudaVars, extVars>>

NextOwned ==
    \/ \E len \in Lens \ {0} : Device_alloc_raw(len)
    \/ \E p \in 1..Len(heap) : CopyHandle(p)
    \/ \E p \in 1..Len(heap) : CPU_drop(p)
    \/ \E p \in 1..Len(heap) : VecRead_read(p)

SpecOwned == Init /\ [][NextOwned]_vars

\* ---- a loop that replays one operation sequence ----
\* The operations of a replayed sequence: cached(len) on a device, or construct_buffer
\* of the CPU buffer the operation before it returned.
LoopOps ==
    [op : {"cached"}, dev : CacheDevices, len : Lens \ {0}]
        \cup {[op |-> "construct_buffer", dev |-> "OpenCL", len |-> 0]}

Progs ==
    {p \in UNION {[1..n -> LoopOps] : n \in 1..MaxProg} :
        \A k \in 1..Len(p) :
            p[k].op = "construct_buffer" =>
                k > 1 /\ p[k - 1].op = "cached" /\ p[k - 1].dev = "CPU"}

\* Number of entries in all the device caches.
CacheEntries(c) == Cardinality(UNION {{<<d, e>> : e \in c[d]} : d \in Devices})

\* The returned pointer is remembered per slot during the first iteration.
Remember(r) == IF iter = 1 THEN Append(first, r.buf.ptr) ELSE first

\* One slot of the loop body: device.cached(len).
LoopCached ==
    /\ pc <= Len(prog)
    /\ prog[pc].op = "cached"
    /\ Cache_get(prog[pc].dev, prog[pc].len, {})
    /\ pc' = pc + 1
    /\ first' = Remember(ret')
    /\ UNCHANGED <<prog, iter, base, holders, tapeVars, cellVars, cudaVars, extVars>>

\* One slot of the loop body: construct_buffer(&cl, buf, ()) of the buffer just returned.
LoopConstruct ==
    /\ pc <= Len(prog)
    /\ prog[pc].op = "construct_buffer"
    /\ ret.kind = "buffer"
    /\ ret.buf \in bufs
    /\ construct_buffer(ret.buf)
    /\ pc' = pc + 1
    /\ first' = Remember(ret')
    /\ UNCHANGED <<prog, iter, base, holders, tapeVars, cellVars, cudaVars, extVars>>

\* The iteration boundary: the buffers of the body go out of scope and the count is
\* set back to the start value.
LoopReset ==
    /\ pc = Len(prog) + 1
    /\ iter < MaxIter
    /\ count' = 0
    /\ bufs' = {}
    /\ ret' = NoReturn
    /\ pc' = 1
    /\ iter' = iter + 1
    /\ base' = IF iter = 1
               THEN [allocs |-> Len(heap), entries |-> CacheEntries(cache)]
               ELSE base
    /\ UNCHANGED <<cache, graph, heap, prog, first, holders, tapeVars, cellVars, cudaVars, extVars>>

InitLoop ==
    /\ count = 0
    /\ cache = [d \in Devices |-> {}]
    /\ graph = [d \in Devices |-> <<>>]
    /\ heap = <<>>
    /\ bufs = {}
    /\ ret = NoReturn
    /\ holders = <<>>
    /\ prog \in Progs
    /\ pc = 1
    /\ iter = 1
    /\ first = <<>>
    /\ base = [allocs |-> 0, entries |-> 0]
    /\ Tape_new
    /\ RefCell_new
    /\ CudaCache_new
    /\ Ext_new

NextLoop ==
    \/ LoopCached
    \/ LoopConstruct
    \/ LoopReset

SpecLoop == InitLoop /\ [][NextLoop]_vars

\* ---- the tape of gradient closures ----
\* A get that allocates on every request.
Cache_get_ident_fresh(h, c, d, ident) ==
    [heap |-> malloc(h, d, ident.len),
     nodes |-> HashMap_insert(c, ident, [ptr |-> Len(h) + 1, host |-> 0, len |-> ident.len,
                                         node |-> NoNode]),
     ptr |-> Len(h) + 1, hit |-> FALSE]

\* Cache::get(device, ident, || ()) with the Ident given by the caller: the entry stored
\* under it, or a new allocation of ident.len elements inserted under it. The callback
\* is empty. Yields the new heap, the new map and the pointer handed out.
Cache_get_ident(h, c, d, ident) ==
    LET found == CacheLookup(c, ident)
        p == Len(h) + 1
        raw == [ptr |-> p, host |-> 0, len |-> ident.len, node |-> NoNode]
    IN IF found # {}
       THEN [heap |-> h, nodes |-> c, ptr |-> (CHOOSE e \in found : TRUE).ptr, hit |-> TRUE]
       ELSE [heap |-> malloc(h, d, ident.len), nodes |-> HashMap_insert(c, ident, raw),
             ptr |-> p, hit |-> FALSE]

\* A closure that keeps the pointer it saw in the forward pass.
device_get_like_captured(h, c, d, f) ==
    [heap |-> h, nodes |-> c, ptr |-> f.fwd, hit |-> TRUE]

\* device.get_like(xid) inside a closure: the forward buffer is looked up in the cache
\* of the device by the captured Ident.
device_get_like(h, c, d, f) == Cache_get_ident(h, c, d, f.x)

\* The closure unary_ew puts on the tape, run as number i of the drained vector:
\* grads.get_double(device, ids) resolves the input, its gradient and the gradient of
\* the output, then add_unary_grad reads and writes them.
grad_fn(st, d, f, i) ==
    LET lhs == device_get_like(st.heap, st.cache, d, f)
        lhs_grad == Cache_get_ident(lhs.heap, st.grads, d, f.x)
        out_grad == Cache_get_ident(lhs_grad.heap, lhs_grad.nodes, d, f.o)
    IN [heap |-> out_grad.heap,
        cache |-> lhs.nodes,
        grads |-> out_grad.nodes,
        invoked |-> Append(st.invoked, i),
        reqs |-> st.reqs \o <<[ident |-> f.x, ptr |-> lhs_grad.ptr, hit |-> lhs_grad.hit],
                               [ident |-> f.o, ptr |-> out_grad.ptr, hit |-> out_grad.hit]>>,
        ptrs |-> st.ptrs \cup {lhs.ptr, lhs_grad.ptr, out_grad.ptr}]

\* An iteration front to back.
rev_not(n) == [i \in 1..n |-> i]

\* drain(..).rev(): the positions of the vector, last to first.
rev(n) == [i \in 1..n |-> n + 1 - i]

\* An iteration that leaves the closures in the vector.
drain_keep(fns) == fns

\* What drain(..) leaves in the vector.
drain(fns) == <<>>

\* for grad_fn in ... { grad_fn(&mut self.grads, device) }: one closure after the other.
RECURSIVE for_grad_fn(_, _, _, _)
for_grad_fn(st, d, fns, order) ==
    IF order = <<>> THEN st
    ELSE for_grad_fn(grad_fn(st, d, fns[Head(order)], Head(order)), d, fns, Tail(order))

\* A pass that first makes a gradient buffer of one element at count 0.
Tape_run_seeded(d) ==
    LET seed == Cache_get_ident(heap, grads[d], d, [idx |-> 0, len |-> 1])
    IN for_grad_fn([heap |-> seed.heap, cache |-> cache[d], grads |-> seed.nodes,
                    invoked |-> <<>>, reqs |-> <<>>, ptrs |-> {}],
                   d, grad_fns[d], rev(Len(grad_fns[d])))

\* The state a backward pass of device d's tape ends in.
Tape_run(d) ==
    for_grad_fn([heap |-> heap, cache |-> cache[d], grads |-> grads[d],
                 invoked |-> <<>>, reqs |-> <<>>, ptrs |-> {}],
                d, grad_fns[d], rev(Len(grad_fns[d])))

\* Tape::backward(device).
Tape_backward(d) ==
    LET st == Tape_run(d)
    IN /\ grad_fns' = [grad_fns EXCEPT ![d] = drain(@)]
       /\ grads' = [grads EXCEPT ![d] = st.grads]
       /\ cache' = [cache EXCEPT ![d] = st.cache]
       /\ heap' = st.heap
       /\ ret' = [op |-> "backward", kind |-> "unit", hit |-> FALSE, err |-> "",
                  buf |-> NullBuf, dev |-> d, n |-> Len(grad_fns[d]), fns |-> grad_fns[d],
                  invoked |-> st.invoked, reqs |-> st.reqs, ptrs |-> st.ptrs]
       /\ UNCHANGED <<count, graph, bufs>>

\* Buffer::id() of a cached buffer: the Ident its allocation is stored under.
HasId(d, b) == \E e \in cache[d] : e.ptr = b.ptr
id(d, b) == (CHOOSE e \in cache[d] : e.ptr = b.ptr).ident

\* The Buffer a get of Ident::new(len) would hand out is one the caller holds already.
Held(d, len) ==
    \E e \in CacheLookup(cache[d], Ident_new(len)) : destruct(d, e, "Cache") \in bufs

\* unary_ew(buf, forward_fn, grad_fn) on device d: the output comes from the cache and
\* a closure holding the two Idents is pushed onto the tape. (fwd is a history field:
\* the pointer of the input during the forward pass.)
UnaryEw(d, b) ==
    /\ b \in bufs
    /\ b.dev = d
    /\ HasId(d, b)
    /\ count < MaxCount
    /\ Held(d, b.len) \/ Cardinality(bufs) < MaxBufs
    /\ Len(grad_fns[d]) < MaxTape
    /\ Present(d, b.len) \/ Len(heap) < MaxPtr
    /\ Cache_get(d, b.len, {})
    /\ grad_fns' = [grad_fns EXCEPT ![d] =
                       Append(@, [x |-> id(d, b), o |-> Ident_new(b.len), fwd |-> b.ptr])]
    /\ UNCHANGED <<grads, holders, loopVars, cellVars, cudaVars, extVars>>

\* device.tape_mut().backward(device)
Backward(d) ==
    /\ Len(Tape_run(d).heap) <= MaxPtr + MaxGrads
    /\ Tape_backward(d)
    /\ UNCHANGED <<holders, loopVars, cellVars, cudaVars, extVars>>

\* The tape of the OpenCL device is followed: it is the device whose cache entries
\* can be replaced (to_unified). The inputs are cached buffers of either device, the
\* count is set back to 0 as at the start of a training iteration.
NextTape ==
    \/ \E d \in CacheDevices, len \in Lens \ {0} : Cached(d, len)
    \/ SetCount(0)
    \/ \E b \in bufs : ToUnified(b)
    \/ \E b \in bufs : UnaryEw("OpenCL", b)
    \/ Backward("OpenCL")

SpecTape == Init /\ [][NextTape]_vars

\* ---- the RefCells of a device ----
\* A borrow_mut that lends the cell whatever its flag says.
RefCell_borrow_mut_unchecked(flag) == [ok |-> TRUE, flag |-> WRITING]

\* RefCell::borrow_mut(): an unused cell is lent for writing; a borrowed one is not
\* ("already borrowed: BorrowMutError").
RefCell_borrow_mut(flag) ==
    IF flag = UNUSED THEN [ok |-> TRUE, flag |-> WRITING] ELSE [ok |-> FALSE, flag |-> flag]

\* RefCell::borrow(): a cell that is not lent for writing is lent once more for reading
\* ("already mutably borrowed: BorrowError" otherwise).
RefCell_borrow(flag) ==
    IF flag >= UNUSED THEN [ok |-> TRUE, flag |-> flag + 1] ELSE [ok |-> FALSE, flag |-> flag]

\* The guard a successful borrow returns.
Guard(d, c, kind) ==
    [op |-> c, kind |-> kind, hit |-> FALSE, err |-> "", buf |-> NullBuf, dev |-> d]

\* device.cache(), device.graph(), device.tape_mut(): self.<cell>.borrow_mut().
BorrowMut(d, c) ==
    /\ refs[d][c].mut + refs[d][c].shared < MaxRefs
    /\ LET r == RefCell_borrow_mut(borrow[d][c])
       IN /\ borrow' = [borrow EXCEPT ![d][c] = r.flag]
          /\ refs' = IF r.ok THEN [refs EXCEPT ![d][c].mut = @ + 1] ELSE refs
          /\ ret' = IF r.ok THEN Guard(d, c, "RefMut")
                    ELSE Failed(c, "panic", "BorrowMutError")
    /\ UNCHANGED <<count, cache, graph, heap, bufs, holders, loopVars, tapeVars, cudaVars, extVars>>

\* device.cache.borrow(), as construct_buffer does for its lookup.
Borrow(d, c) ==
    /\ refs[d][c].mut + refs[d][c].shared < MaxRefs
    /\ LET r == RefCell_borrow(borrow[d][c])
       IN /\ borrow' = [borrow EXCEPT ![d][c] = r.flag]
          /\ refs' = IF r.ok THEN [refs EXCEPT ![d][c].shared = @ + 1] ELSE refs
          /\ ret' = IF r.ok THEN Guard(d, c, "Ref")
                    ELSE Failed(c, "panic", "BorrowError")
    /\ UNCHANGED <<count, cache, graph, heap, bufs, holders, loopVars, tapeVars, cudaVars, extVars>>

\* Drop for RefMut: the cell is unused again.
DropRefMut(d, c) ==
    /\ refs[d][c].mut > 0
    /\ refs' = [refs EXCEPT ![d][c].mut = @ - 1]
    /\ borrow' = [borrow EXCEPT ![d][c] = @ + 1]
    /\ ret' = NoReturn
    /\ UNCHANGED <<count, cache, graph, heap, bufs, holders, loopVars, tapeVars, cudaVars, extVars>>

\* Drop for Ref: one reader less.
DropRef(d, c) ==
    /\ refs[d][c].shared > 0
    /\ refs' = [refs EXCEPT ![d][c].shared = @ - 1]
    /\ borrow' = [borrow EXCEPT ![d][c] = @ - 1]
    /\ ret' = NoReturn
    /\ UNCHANGED <<count, cache, graph, heap, bufs, holders, loopVars, tapeVars, cudaVars, extVars>>

NextCells ==
    \/ \E d \in Devices, c \in Cells : BorrowMut(d, c)
    \/ Borrow("OpenCL", "cache")
    \/ \E d \in Devices, c \in Cells : DropRefMut(d, c)
    \/ DropRef("OpenCL", "cache")

SpecCells == Init /\ [][NextCells]_vars

\* ---- several device instances in one thread ----
\* Buffer::new(&device, len) on an InternCudaDevice: the allocation is noted in the
\* ptrs of that instance.
CudaBuffer_new(i, len) ==
    /\ Len(heap) < MaxPtr
    /\ heap' = malloc(heap, "CUDA", len)
    /\ ptrs' = [ptrs EXCEPT ![i] = @ \cup {Len(heap) + 1}]
    /\ ret' = Returned("new", [ptr |-> Len(heap) + 1, host |-> 0, len |-> len,
                               flag |-> "None", dev |-> i, node |-> NoNode], FALSE)
    /\ UNCHANGED <<count, cache, graph, bufs, holders, loopVars, tapeVars, cellVars,
                   CUDA_CACHE, extVars>>

\* CudaCache::add_node(device, node): Buffer::new on the device, then the pointer and
\* the length are inserted under the node.
CudaCache_add_node(i, node) ==
    LET p == Len(heap) + 1
        out == [ptr |-> p, host |-> 0, len |-> node.len, flag |-> "None", dev |-> i,
                node |-> NoNode]
    IN /\ heap' = malloc(heap, "CUDA", node.len)
       /\ ptrs' = [ptrs EXCEPT ![i] = @ \cup {p}]
       /\ CUDA_CACHE' = HashMap_insert(CUDA_CACHE, node,
                                       [ptr |-> p, host |-> 0, len |-> node.len,
                                        node |-> NoNode])
       /\ ret' = Returned("get", out, FALSE)

\* CudaCache::get(device, len): the device must have allocated before; the node of the
\* current count is looked up in the thread-local CUDA_CACHE.
CudaCache_get(i, len) ==
    LET node == Ident_new(len)
        buf_info_option == CacheLookup(CUDA_CACHE, node)
    IN IF ptrs[i] = {}
       THEN /\ ret' = Failed("get", "panic", "no Cuda allocations")
            /\ UNCHANGED <<count, heap, CUDA_CACHE, ptrs>>
       ELSE /\ count' = bump_count
            /\ IF buf_info_option # {}
               THEN LET buf_info == CHOOSE e \in buf_info_option : TRUE
                    IN /\ ret' = Returned("get", [ptr |-> buf_info.ptr, host |-> 0,
                                                  len |-> buf_info.len, flag |-> "None",
                                                  dev |-> i, node |-> NoNode], TRUE)
                       /\ UNCHANGED <<heap, CUDA_CACHE, ptrs>>
               ELSE CudaCache_add_node(i, node)

\* cached(len) with an InternCudaDevice selected.
CudaCached(i, len) ==
    /\ count < MaxCount
    /\ CacheLookup(CUDA_CACHE, Ident_new(len)) # {} \/ Len(heap) < MaxPtr
    /\ CudaCache_get(i, len)
    /\ UNCHANGED <<cache, graph, bufs, holders, loopVars, tapeVars, cellVars, extVars>>

NextInstances ==
    \/ \E d \in CacheDevices, len \in Lens \ {0} : Cached(d, len)
    \/ SetCount(0)
    \/ \E b \in bufs : DropBuffer(b)
    \/ \E b \in bufs : ConstructBuffer(b)
    \/ \E b \in bufs : UnaryEw("OpenCL", b)
    \/ Backward("OpenCL")
    \/ \E i \in CudaInstances, len \in Lens \ {0} : CudaBuffer_new(i, len)
    \/ \E i \in CudaInstances, len \in Lens \ {0} : CudaCached(i, len)

SpecInstances == Init /\ [][NextInstances]_vars

\* ---- device memory, command queues and streams ----
\* The element values: T::default() and one other value.
Vals == {0, 1}

\* The slices a caller passes: the empty one and every slice of a length in Lens.
Slices == {<<>>} \cup UNION {[1..n -> Vals] : n \in Lens \ {0}}

\* vec![T::default(); len]: what a fresh allocation of the CPU, or a vector to read
\* into, holds.
Zeros(len) == [i \in 1..len |-> 0]

\* A kernel or a transfer the device has been given: it stores val in allocation ptr.
Command(p, val) == [ptr |-> p, val |-> val]

\* clCreateCommandQueue(.., properties = 0) is an in-order queue and a stream runs its
\* work in issue order: the commands take effect one after the other.
RECURSIVE complete(_, _)
complete(dat, cmds) ==
    IF cmds = <<>> THEN dat
    ELSE complete([dat EXCEPT ![Head(cmds).ptr] = Head(cmds).val], Tail(cmds))

\* A read that returns without waiting for the stream.
Stream_sync_skip(dat, cmds) == [data |-> dat, pending |-> cmds]

\* Stream::sync (cuStreamSynchronize): returns once the stream has run all its work.
Stream_sync(dat, cmds) == [data |-> complete(dat, cmds), pending |-> <<>>]

\* wait_for_event (clWaitForEvents) on the event of the command enqueued last: the queue
\* is in-order, the event completes after every command before it.
wait_for_event(dat, cmds) == [data |-> complete(dat, cmds), pending |-> <<>>]

\* enqueue_nd_range_kernel: clEnqueueNDRangeKernel, then wait_for_event(e).
enqueue_nd_range_kernel(dat, cmds, cmd) == wait_for_event(dat, Append(cmds, cmd))

\* enqueue_write_buffer(.., blocking = true) followed by wait_for_event(event).
OpenCL_write(dat, cmds, cmd) == wait_for_event(dat, Append(cmds, cmd))

\* launch_kernel1d / culaunch_kernel(.., device.stream(), ..): the kernel is put on
\* the stream and the call returns.
culaunch_kernel(dat, cmds, cmd) == [data |-> dat, pending |-> Append(cmds, cmd)]

\* cu_write (cuMemcpyHtoD): a copy on the default stream, which runs after the work
\* of the device's stream and has finished when the call returns.
cu_write(dat, cmds, cmd) == [data |-> complete(dat, Append(cmds, cmd)), pending |-> <<>>]

\* What the last read returned: the vector, the Buffer read and whether the read found
\* commands it had to wait for.
ReadResult(b, vec, waited) ==
    [op |-> "read", kind |-> "vec", hit |-> FALSE, err |-> "", buf |-> b,
     vec |-> vec, waited |-> waited]

\* What Buffer::from and write returned: the Buffer, with the slice that was passed.
WriteResult(op, b, sl) ==
    [op |-> op, kind |-> "buffer", hit |-> FALSE, err |-> "", buf |-> b, vec |-> sl]

\* What a read leaves behind and yields.
ReadOutcome(dat, cmds, vec) == [data |-> dat, pending |-> cmds, vec |-> vec]

\* A read that does not wait for the event of its transfer: the vector is returned as
\* it was created.
read_cl_buf_to_vec_unwaited(dat, cmds, b) == ReadOutcome(dat, cmds, Zeros(b.len))

\* read_cl_buf_to_vec: a vector of buf.len() default elements, enqueue_read_buffer(..,
\* blocking = false) into it, wait_for_event, Ok(read).
read_cl_buf_to_vec(dat, cmds, b) ==
    LET done == wait_for_event(dat, cmds)
    IN ReadOutcome(done.data, done.pending, done.data[b.ptr])

\* Read::read_to_vec for CUDA: stream.sync(), then cu_read into a fresh vector.
CUDA_read_to_vec(dat, cmds, b) ==
    LET done == Stream_sync(dat, cmds)
    IN ReadOutcome(done.data, done.pending, done.data[b.ptr])

\* Read::read for OpenCL: cfg(unified_cl) returns buf.as_slice(), the host view of the
\* shared memory; the other build goes through read_to_vec. build.rs sets the cfg from
\* the machine it runs on.
OpenCL_read(unified_cl, dat, cmds, b) ==
    IF unified_cl THEN ReadOutcome(dat, cmds, dat[b.ptr]) ELSE read_cl_buf_to_vec(dat, cmds, b)

\* Read::read for CPU: buf.as_slice().
CPU_read(dat, cmds, b) == ReadOutcome(dat, cmds, dat[b.ptr])

Device_read(d, unified_cl, dat, cmds, b) ==
    IF d = "CPU" THEN CPU_read(dat, cmds, b)
    ELSE IF d = "OpenCL" THEN OpenCL_read(unified_cl, dat, cmds, b)
    ELSE CUDA_read_to_vec(dat, cmds, b)

\* Buffer::from((device, slice)): with_slice allocates and stores the slice.
SyncFrom(d, sl) ==
    LET res == Device_with_slice(d, Len(sl))
        out == [ptr |-> Len(heap) + 1, host |-> 0, len |-> Len(sl), flag |-> "None",
                dev |-> d, node |-> Len(graph[d])]
    IN /\ Len(heap) < MaxPtr
       /\ Cardinality(bufs) < MaxBufs
       /\ IF res # "ok"
          THEN /\ ret' = Failed("with_slice", "panic", res)
               /\ UNCHANGED <<heap, graph, bufs, data>>
          ELSE /\ heap' = malloc(heap, d, Len(sl))
               /\ data' = Append(data, sl)
               /\ graph' = [graph EXCEPT ![d] = Graph_add(@, Len(sl), {})]
               /\ bufs' = bufs \cup {out}
               /\ ret' = WriteResult("with_slice", out, sl)
       /\ UNCHANGED <<count, cache, holders, loopVars, tapeVars, cellVars, cudaVars,
                      pending, nograph, kernel_cache, programs>>

\* An operation that fills its output buffer with v: a loop on the host for CPU, a
\* kernel for the two other devices.
Launch(b, v) ==
    LET cmd == Command(b.ptr, [i \in 1..b.len |-> v])
        run == IF b.dev = "CPU" THEN [data |-> complete(data, <<cmd>>), pending |-> <<>>]
               ELSE IF b.dev = "OpenCL"
                    THEN enqueue_nd_range_kernel(data, pending[b.dev], cmd)
                    ELSE culaunch_kernel(data, pending[b.dev], cmd)
    IN /\ Len(pending[b.dev]) < MaxPending
       /\ data' = run.data
       /\ pending' = [pending EXCEPT ![b.dev] = run.pending]
       /\ ret' = NoReturn
       /\ UNCHANGED <<count, cache, graph, heap, bufs, holders, loopVars, tapeVars,
                      cellVars, cudaVars, nograph, kernel_cache, programs>>

\* WriteBuf::write(buf, data): copy_from_slice on CPU, which panics when the lengths
\* differ; a blocking transfer on the two other devices, followed with slices of the
\* buffer's length.
Write(b, sl) ==
    LET cmd == Command(b.ptr, sl)
        run == IF b.dev = "CPU" THEN [data |-> complete(data, <<cmd>>), pending |-> <<>>]
               ELSE IF b.dev = "OpenCL" THEN OpenCL_write(data, pending[b.dev], cmd)
                    ELSE cu_write(data, pending[b.dev], cmd)
    IN IF Len(sl) # b.len
       THEN /\ b.dev = "CPU"
            /\ ret' = Failed("write", "panic", "LengthMismatch")
            /\ UNCHANGED <<count, cache, graph, heap, bufs, holders, loopVars, tapeVars,
                           cellVars, cudaVars, extVars>>
       ELSE /\ data' = run.data
            /\ pending' = [pending EXCEPT ![b.dev] = run.pending]
            /\ ret' = WriteResult("write", b, sl)
            /\ UNCHANGED <<count, cache, graph, heap, bufs, holders, loopVars, tapeVars,
                           cellVars, cudaVars, nograph, kernel_cache, programs>>

\* A loop that stops one element early.
CPU_clear_short(dat, b) ==
    [dat EXCEPT ![b.ptr] = [i \in DOMAIN @ |-> IF i < Len(@) THEN 0 ELSE @[i]]]

\* ClearBuf::clear for CPU: for value in buf { *value = T::default(); }.
CPU_clear(dat, b) == [dat EXCEPT ![b.ptr] = [i \in DOMAIN @ |-> 0]]

\* cl_clear(device, buf): a kernel that stores 0 in each of the buf.len elements,
\* enqueued on the queue of the device.
cl_clear(dat, cmds, b) == enqueue_nd_range_kernel(dat, cmds, Command(b.ptr, Zeros(b.len)))

\* cu_clear(device, buf): the same kernel, launched on the stream of the device.
cu_clear(dat, cmds, b) == culaunch_kernel(dat, cmds, Command(b.ptr, Zeros(b.len)))

\* What clear returned: (), kept with the Buffer it was called on.
ClearResult(b) ==
    [op |-> "clear", kind |-> "unit", hit |-> FALSE, err |-> "", buf |-> b]

\* buf.clear(): ClearBuf::clear of the device of the buffer.
Clear(b) ==
    LET run == IF b.dev = "CPU" THEN [data |-> CPU_clear(data, b), pending |-> <<>>]
               ELSE IF b.dev = "OpenCL" THEN cl_clear(data, pending[b.dev], b)
                    ELSE cu_clear(data, pending[b.dev], b)
    IN /\ Len(pending[b.dev]) < MaxPending
       /\ data' = run.data
       /\ pending' = [pending EXCEPT ![b.dev] = run.pending]
       /\ ret' = ClearResult(b)
       /\ UNCHANGED <<count, cache, graph, heap, bufs, holders, loopVars, tapeVars,
                      cellVars, cudaVars, nograph, kernel_cache, programs>>

\* The device finishes the oldest command of its queue / stream on its own.
DeviceStep(d) ==
    /\ pending[d] # <<>>
    /\ data' = complete(data, <<Head(pending[d])>>)
    /\ pending' = [pending EXCEPT ![d] = Tail(@)]
    /\ UNCHANGED <<count, cache, graph, heap, bufs, ret, holders, loopVars, tapeVars,
                   cellVars, cudaVars, nograph, kernel_cache, programs>>

\* device.read(&buf) / buf.read(), in a build with or without cfg(unified_cl).
Read(b) ==
    \E unified_cl \in BOOLEAN :
    LET run == Device_read(b.dev, unified_cl, data, pending[b.dev], b)
    IN /\ data' = run.data
       /\ pending' = [pending EXCEPT ![b.dev] = run.pending]
       /\ ret' = ReadResult(b, run.vec, pending[b.dev] # <<>>)
       /\ UNCHANGED <<count, cache, graph, heap, bufs, holders, loopVars, tapeVars,
                      cellVars, cudaVars, nograph, kernel_cache, programs>>

NextSync ==
    \/ \E d \in Devices, sl \in Slices : SyncFrom(d, sl)
    \/ \E b \in bufs, v \in Vals : Launch(b, v)
    \/ \E b \in bufs, sl \in Slices : Write(b, sl)
    \/ \E b \in bufs : Clear(b)
    \/ \E d \in Devices : DeviceStep(d)
    \/ \E b \in bufs : Read(b)

SpecSync == Init /\ [][NextSync]_vars

\* ---- operations with and without graph bookkeeping ----
Min(a, b) == IF a < b THEN a ELSE b

\* The loop of AddBuf::add for CPU: out[i] = lhs[i] + rhs[i] for i in 0..len.
add_loop(lhs, rhs, out) ==
    [i \in 1..Len(out) |-> lhs[i] + rhs[i]]

\* The loop of AddBuf::relu for CPU: out[i] = lhs[i] where lhs[i] > 0; the other
\* elements of out are not written.
relu_loop(lhs, out) ==
    [i \in 1..Len(out) |-> IF lhs[i] > 0 THEN lhs[i] ELSE out[i]]

\* The elements of the device's allocations after a get: one more zeroed allocation
\* when the get allocated.
after_get(dat, h, len) == IF Len(dat) < Len(h) THEN Append(dat, Zeros(len)) ELSE dat

\* Cache::get with an empty callback on the device without graph callbacks, followed by
\* the loop of the operation op on the allocations l and r and the output.
NoGraph_op(ng, b, len, op, l, r) ==
    LET got == Cache_get_ident(ng.heap, ng.cache, "CPU", [idx |-> ng.count, len |-> len])
        dat == after_get(ng.data, got.heap, len)
        o == got.ptr
    IN [count |-> ng.count + 1,
        cache |-> got.nodes,
        heap |-> got.heap,
        data |-> [dat EXCEPT ![o] = IF op = "add" THEN add_loop(dat[l], dat[r], dat[o])
                                    ELSE relu_loop(dat[l], dat[o])],
        twin |-> [x \in DOMAIN ng.twin \cup {b} |-> IF x = b THEN got.ptr ELSE ng.twin[x]]]

\* Buffer::from((&device, slice)) on both devices: with_slice, then graph().add_leaf(len)
\* where the graph is kept.
GraphFrom(sl) ==
    LET p == Len(nograph.heap) + 1
        out == [ptr |-> Len(heap) + 1, host |-> 0, len |-> Len(sl), flag |-> "None",
                dev |-> "CPU", node |-> Len(graph["CPU"])]
    IN /\ Len(heap) < MaxPtr
       /\ Len(nograph.heap) < MaxPtr
       /\ OwnedBuffer("with_slice", "CPU", Len(sl), CPU_with_slice(Len(sl)))
       /\ data' = Append(data, sl)
       /\ nograph' = [nograph EXCEPT
                         !.heap = malloc(@, "CPU", Len(sl)),
                         !.data = Append(@, sl),
                         !.twin = [x \in DOMAIN @ \cup {out} |-> IF x = out THEN p ELSE @[x]]]
       /\ UNCHANGED <<holders, loopVars, tapeVars, cellVars, cudaVars, pending, kernel_cache,
                      programs>>

\* AddBuf::add(lhs, rhs) for CPU on both devices: Cache::get(self, len, (lhs.node.idx,
\* rhs.node.idx)), then the loop. Followed while the sums stay within Vals.
GraphAdd(lhs, rhs) ==
    LET len == Min(lhs.len, rhs.len)
    IN /\ count < MaxCount
       /\ Len(heap) < MaxPtr
       /\ Len(nograph.heap) < MaxPtr
       /\ \A i \in 1..len : data[lhs.ptr][i] + data[rhs.ptr][i] \in Vals
       /\ \A i \in 1..len : nograph.data[nograph.twin[lhs]][i]
                              + nograph.data[nograph.twin[rhs]][i] \in Vals
       /\ Cache_get("CPU", len, {lhs.node, rhs.node})
       /\ data' = LET dat == after_get(data, heap', len)
                      o == ret'.buf.ptr
                  IN [dat EXCEPT ![o] = add_loop(dat[lhs.ptr], dat[rhs.ptr], dat[o])]
       /\ nograph' = LET l == nograph.twin[lhs]
                         r == nograph.twin[rhs]
                     IN NoGraph_op(nograph, ret'.buf, len, "add", l, r)
       /\ UNCHANGED <<holders, loopVars, tapeVars, cellVars, cudaVars, pending, kernel_cache,
                      programs>>

\* AddBuf::relu(lhs) for CPU on both devices: Cache::get(self, lhs.len, (lhs.node.idx,
\* lhs.node.idx)), then the loop.
GraphRelu(lhs) ==
    /\ count < MaxCount
    /\ Len(heap) < MaxPtr
    /\ Len(nograph.heap) < MaxPtr
    /\ Cache_get("CPU", lhs.len, {lhs.node})
    /\ data' = LET dat == after_get(data, heap', lhs.len)
                   o == ret'.buf.ptr
               IN [dat EXCEPT ![o] = relu_loop(dat[lhs.ptr], dat[o])]
    /\ nograph' = NoGraph_op(nograph, ret'.buf, lhs.len, "relu", nograph.twin[lhs],
                             nograph.twin[lhs])
    /\ UNCHANGED <<holders, loopVars, tapeVars, cellVars, cudaVars, pending, kernel_cache,
                      programs>>

\* WriteBuf::write(buf, data) for CPU on both devices: buf.copy_from_slice(data).
GraphWrite(b, sl) ==
    /\ Len(sl) = b.len
    /\ data' = [data EXCEPT ![b.ptr] = sl]
    /\ nograph' = [nograph EXCEPT !.data[nograph.twin[b]] = sl]
    /\ ret' = NoReturn
    /\ UNCHANGED <<count, cache, graph, heap, bufs, holders, loopVars, tapeVars,
                   cellVars, cudaVars, pending, kernel_cache, programs>>

\* set_count(v) in the thread of each device.
GraphSetCount(v) ==
    /\ v # count
    /\ count' = v
    /\ nograph' = [nograph EXCEPT !.count = v]
    /\ ret' = NoReturn
    /\ UNCHANGED <<cache, graph, heap, bufs, holders, loopVars, tapeVars, cellVars,
                   cudaVars, data, pending, kernel_cache, programs>>

\* The nodes of the graph no other node depends on.
GraphOpt_unused(g) ==
    {n \in 0..(Len(g) - 1) : \A m \in 1..Len(g) : n \notin g[m].deps}

\* The pass that consumes the graph: it detects the nodes that are not used.
GraphOptimize ==
    /\ graph["CPU"] # <<>>
    /\ ret' = [op |-> "optimize", kind |-> "nodes", hit |-> FALSE, err |-> "",
               buf |-> NullBuf, unused |-> GraphOpt_unused(graph["CPU"])]
    /\ UNCHANGED <<count, cache, graph, heap, bufs, holders, loopVars, tapeVars,
                   cellVars, cudaVars, extVars>>

NextGraph ==
    \/ \E sl \in Slices \ {<<>>} : GraphFrom(sl)
    \/ \E lhs \in bufs, rhs \in bufs : GraphAdd(lhs, rhs)
    \/ \E lhs \in bufs : GraphRelu(lhs)
    \/ \E b \in bufs, sl \in Slices : GraphWrite(b, sl)
    \/ \E v \in 0..MaxCount : GraphSetCount(v)
    \/ GraphOptimize

SpecGraph == Init /\ [][NextGraph]_vars

\* ---- teardown of a device ----
\* What a teardown call returned: nothing; the record keeps the call and the device.
TornDown(op, d) ==
    [op |-> op, kind |-> "unit", hit |-> FALSE, err |-> "", buf |-> NullBuf, dev |-> d]

\* OpenCL::reset(&'static mut self): kernel_cache, cache, graph and cpu are replaced by
\* their defaults; the old cache is dropped and with it every Rc<RawCL> it holds. The
\* exclusive borrow rules out a live Buffer of the device.
OpenCL_reset ==
    /\ \A b \in bufs : b.dev # "OpenCL"
    /\ cache' = [cache EXCEPT !["OpenCL"] = {}]
    /\ graph' = [graph EXCEPT !["OpenCL"] = <<>>]
    /\ heap' = Raw_drop(heap, cache["OpenCL"])
    /\ kernel_cache' = [kernel_cache EXCEPT !["OpenCL"] = {}]
    /\ ret' = TornDown("reset", "OpenCL")
    /\ UNCHANGED <<count, bufs, holders, loopVars, tapeVars, cellVars, cudaVars, data,
                   pending, nograph, programs>>

\* drop(device) for the device structs CPU { cache, graph }, OpenCL and CUDA (whose Drop
\* destroys the cublas handle and the stream first): the fields are dropped, the cache
\* among them. A Buffer borrows its device, none is alive. The name stands for the
\* next device of that kind afterwards.
Device_drop(d) ==
    /\ \A b \in bufs : b.dev # d
    /\ cache' = [cache EXCEPT ![d] = {}]
    /\ graph' = [graph EXCEPT ![d] = <<>>]
    /\ heap' = Raw_drop(heap, cache[d])
    /\ kernel_cache' = [kernel_cache EXCEPT ![d] = {}]
    /\ ret' = TornDown("drop", d)
    /\ UNCHANGED <<count, bufs, holders, loopVars, tapeVars, cellVars, cudaVars, data,
                   pending, nograph, programs>>

\* Dealloc::dealloc_cache for the CPU of libs/: the body is commented out, the call
\* returns without touching the cache.
CPU_dealloc_cache ==
    /\ ret' = TornDown("dealloc_cache", "CPU")
    /\ UNCHANGED <<count, cache, graph, heap, bufs, holders, loopVars, tapeVars,
                   cellVars, cudaVars, extVars>>

NextTeardown ==
    \/ \E d \in Devices, len \in Lens : DeviceCached(d, len)
    \/ \E v \in 0..MaxCount : SetCount(v)
    \/ \E b \in bufs : DropBuffer(b)
    \/ OpenCL_reset
    \/ \E d \in Devices : Device_drop(d)
    \/ CPU_dealloc_cache

SpecTeardown == Init /\ [][NextTeardown]_vars

\* ---- the whole life of the allocations of a cache ----
\* Cache lookups, the replacement of an entry by to_unified, Buffer drops and the
\* teardown of a device, in any order.
NextLifetime ==
    \/ \E d \in CacheDevices, len \in Lens : Cached(d, len)
    \/ \E v \in 0..MaxCount : SetCount(v)
    \/ \E b \in bufs : DropBuffer(b)
    \/ \E b \in bufs : ConstructBuffer(b)
    \/ \E b \in bufs : ToUnified(b)
    \/ OpenCL_reset
    \/ \E d \in CacheDevices : Device_drop(d)

SpecLifetime == Init /\ [][NextLifetime]_vars

\* ---- construct_buffer on owned and on cached CPU buffers ----
NextConstruct ==
    \/ \E len \in Lens : BufferNew("CPU", len)
    \/ \E d \in CacheDevices, len \in Lens : Cached(d, len)
    \/ \E v \in 0..MaxCount : SetCount(v)
    \/ \E b \in bufs : DropBuffer(b)
    \/ \E b \in bufs : ConstructBuffer(b)

SpecConstruct == Init /\ [][NextConstruct]_vars

\* ---- kernel caches ----
\* Kernel sources: each of the first two defines the function it is named after, the
\* third does not compile.
Sources == {"add", "relu", "broken"}
FnNames == {"add", "relu"}
KernelDevices == {"OpenCL", "CUDA"}

\* build_program (clBuildProgram) / Program::compile (nvrtcCompileProgram).
build_program(src) == IF src = "broken" THEN "CompileError" ELSE "ok"

\* A source that defines two functions, add first.
TwoKernels == "add_relu"

\* The functions a source defines, in the order of the program.
Functions(src) ==
    IF src = TwoKernels THEN <<"add", "relu">>
    ELSE IF src \in FnNames THEN <<src>>
    ELSE <<>>

\* Module::function(fn_name): the function of that name in the compiled module.
Module_function(src, fn_name) ==
    IF \E i \in DOMAIN Functions(src) : Functions(src)[i] = fn_name THEN "ok" ELSE "NotFound"

\* create_kernels_in_program(&program)?[0]: the first kernel of the program.
first_kernel(src) == Functions(src)[1]

\* HashMap::get(src): the entries stored under the source.
KernelLookup(kc, src) == {e \in kc : e.src = src}

\* HashMap::insert(src, kernel) of the kernel caches.
KernelInsert(kc, src, kernel) ==
    {e \in kc : e.src # src} \cup {[src |-> src, kernel |-> kernel]}

\* What a kernel request yields: the new cache, the programs compiled, and the handle
\* or the error.
KernelResult(kc, progs, kernel, err, hit) ==
    [kernel_cache |-> kc, programs |-> progs, kernel |-> kernel, err |-> err, hit |-> hit]

\* A kernel_cache that compiles on every request.
KernelCacheCL_kernel_cache_recompile(kc, progs, src) ==
    IF build_program(src) # "ok"
    THEN KernelResult(kc, progs, 0, build_program(src), FALSE)
    ELSE KernelResult(KernelInsert(kc, src, Len(progs) + 1),
                      Append(progs, [dev |-> "OpenCL", src |-> src, fn |-> first_kernel(src)]),
                      Len(progs) + 1, "", FALSE)

\* KernelCacheCL::kernel_cache(device, src): the kernel stored under src, or the first
\* kernel of the program compiled from src, inserted under src.
KernelCacheCL_kernel_cache(kc, progs, src) ==
    LET found == KernelLookup(kc, src)
    IN IF found # {}
       THEN KernelResult(kc, progs, (CHOOSE e \in found : TRUE).kernel, "", TRUE)
       ELSE IF build_program(src) # "ok"
       THEN KernelResult(kc, progs, 0, build_program(src), FALSE)
       ELSE KernelResult(KernelInsert(kc, src, Len(progs) + 1),
                         Append(progs, [dev |-> "OpenCL", src |-> src, fn |-> first_kernel(src)]),
                         Len(progs) + 1, "", FALSE)

\* KernelCacheCU::kernel(device, src, fn_name): the function stored under src, or the
\* function fn_name of the module compiled from src, inserted under src. A module that
\* lacks fn_name has been compiled and loaded when the error is returned.
KernelCacheCU_kernel(kc, progs, src, fn_name) ==
    LET found == KernelLookup(kc, src)
        function == Module_function(src, fn_name)
        compiled == Append(progs, [dev |-> "CUDA", src |-> src,
                                   fn |-> IF function = "ok" THEN fn_name ELSE ""])
    IN IF found # {}
       THEN KernelResult(kc, progs, (CHOOSE e \in found : TRUE).kernel, "", TRUE)
       ELSE IF build_program(src) # "ok"
       THEN KernelResult(kc, progs, 0, build_program(src), FALSE)
       ELSE IF Module_function(src, fn_name) # "ok"
       THEN KernelResult(kc, compiled, 0, Module_function(src, fn_name), FALSE)
       ELSE KernelResult(KernelInsert(kc, src, Len(progs) + 1), compiled,
                         Len(progs) + 1, "", FALSE)

\* A kernel is requested on a device: enqueue_kernel / fn_cache(device, src, fn_name).
KernelRequest(d, src, fn_name) ==
    LET r == IF d = "OpenCL"
             THEN KernelCacheCL_kernel_cache(kernel_cache[d], programs, src)
             ELSE KernelCacheCU_kernel(kernel_cache[d], programs, src, fn_name)
    IN /\ Len(r.programs) <= MaxKernels
       /\ d = "OpenCL" => fn_name = src
       /\ kernel_cache' = [kernel_cache EXCEPT ![d] = r.kernel_cache]
       /\ programs' = r.programs
       /\ ret' = [op |-> "kernel", kind |-> IF r.err = "" THEN "kernel" ELSE "err",
                  hit |-> r.hit, err |-> r.err, buf |-> NullBuf, dev |-> d,
                  kernel |-> r.kernel]
       /\ UNCHANGED <<count, cache, graph, heap, bufs, holders, loopVars, tapeVars,
                      cellVars, cudaVars, data, pending, nograph>>

\* fn_cache(device, src, fn_name) on CUDA: the request, the handle it returned and the
\* function that handle denotes.
EntryRequest(src, fn_name) ==
    LET r == KernelCacheCU_kernel(kernel_cache["CUDA"], programs, src, fn_name)
    IN /\ Len(r.programs) <= MaxKernels
       /\ kernel_cache' = [kernel_cache EXCEPT !["CUDA"] = r.kernel_cache]
       /\ programs' = r.programs
       /\ ret' = [op |-> "kernel", kind |-> IF r.err = "" THEN "kernel" ELSE "err",
                  hit |-> r.hit, err |-> r.err, buf |-> NullBuf, dev |-> "CUDA",
                  kernel |-> r.kernel, src |-> src, asked |-> fn_name,
                  fn |-> IF r.err = "" THEN r.programs[r.kernel].fn ELSE ""]
       /\ UNCHANGED <<count, cache, graph, heap, bufs, holders, loopVars, tapeVars,
                      cellVars, cudaVars, data, pending, nograph>>

NextEntry ==
    \/ \E src \in FnNames \cup {TwoKernels}, fn_name \in FnNames : EntryRequest(src, fn_name)
    \/ Device_drop("CUDA")

SpecEntry == Init /\ [][NextEntry]_vars

NextKernels ==
    \/ \E d \in KernelDevices, src \in Sources, fn_name \in FnNames :
           KernelRequest(d, src, fn_name)
    \/ OpenCL_reset
    \/ \E d \in KernelDevices : Device_drop(d)

SpecKernels == Init /\ [][NextKernels]_vars

\* ---- gradient buffers and seeded backward passes ----
\* The elements of every allocation of heap h: those followed in dat, and the default
\* elements a newer allocation was made with.
Zeroed(dat, h) == [p \in 1..Len(h) |-> IF p <= Len(dat) THEN dat[p] ELSE Zeros(h[p].len)]

\* vec![T::one(); len].
Ones(len) == [i \in 1..len |-> 1]

\* A lookup that hands out the buffer the device cache stores for the Ident.
Gradients_get_like_raw_forward(h, g, d, ident) ==
    LET found == CacheLookup(cache[d], ident)
    IN IF found # {}
       THEN [heap |-> h, nodes |-> g, ptr |-> (CHOOSE e \in found : TRUE).ptr, hit |-> TRUE]
       ELSE Cache_get_ident(h, g, d, ident)

\* Gradients::get_like_raw(device, ident): self.cache.get(device, ident, || ()) on the
\* cache g of the Gradients.
Gradients_get_like_raw(h, g, d, ident) == Cache_get_ident(h, g, d, ident)

\* Gradients::get_like(buf): get_like_raw(buf.device(), buf.id()).
Gradients_get_like(h, g, d, b) == Gradients_get_like_raw(h, g, d, id(d, b))

\* A seed that is not written.
seed_write_skip(dat, p) == dat

\* out.write(&vec![T::one(); out.len()]) on the buffer of allocation p.
seed_write(dat, p) == [dat EXCEPT ![p] = Ones(Len(@))]

\* device.add_unary_grad(&lhs, &mut lhs_grad, &out_grad, grad_fn) with the gradient
\* function |x| 1: lhs_grad[i] += out_grad[i], in the wrapping arithmetic of Vals.
add_unary_grad(dat, lhs_grad, out_grad) ==
    [dat EXCEPT ![lhs_grad] =
        [i \in DOMAIN @ |-> IF i \in DOMAIN dat[out_grad]
                            THEN (@[i] + dat[out_grad][i]) % Cardinality(Vals)
                            ELSE @[i]]]

\* The elements during a pass: the closures run in the order of their requests (two
\* per closure, lhs_grad and out_grad); each one reads out_grad, which is noted in
\* seen, and adds to lhs_grad.
RECURSIVE add_unary_grads(_, _, _)
add_unary_grads(dat, reqs, seen) ==
    IF reqs = <<>> THEN [data |-> dat, seen |-> seen]
    ELSE add_unary_grads(add_unary_grad(dat, reqs[1].ptr, reqs[2].ptr),
                         Tail(Tail(reqs)), Append(seen, dat[reqs[2].ptr]))

\* What a call on the Gradients or a seeded pass returned: the gradient buffer of the
\* Buffer passed, the number of closures invoked and the out_grad elements the first
\* of them read.
GradResult(op, d, b, out, st, seen) ==
    [op |-> op, kind |-> "unit", hit |-> out.hit, err |-> "", buf |-> b, dev |-> d,
     ptr |-> out.ptr, n |-> Len(st.invoked), seen |-> IF seen = <<>> THEN <<>> ELSE <<Head(seen)>>]

\* A pass that has run no closure.
NoPass(h, c, g) == [heap |-> h, cache |-> c, grads |-> g, invoked |-> <<>>, reqs |-> <<>>,
                    ptrs |-> {}]

\* tape.grads.get_like(buf), called directly.
GradGetLike(d, b) ==
    LET out == Gradients_get_like(heap, grads[d], d, b)
    IN /\ b \in bufs
       /\ b.dev = d
       /\ HasId(d, b)
       /\ Len(out.heap) <= MaxPtr + MaxGrads
       /\ heap' = out.heap
       /\ grads' = [grads EXCEPT ![d] = out.nodes]
       /\ ret' = GradResult("get_like", d, b, out, NoPass(heap, cache[d], grads[d]), <<>>)
       /\ UNCHANGED <<count, cache, graph, bufs, grad_fns, holders, loopVars, cellVars,
                      cudaVars, extVars>>

\* Tape::backward_seeded(buf): the gradient buffer of buf is taken from the Gradients
\* and written with ones, then backward(buf.device()) runs and drains the closures.
Tape_backward_seeded(d, b) ==
    LET out == Gradients_get_like(heap, grads[d], d, b)
        seeded == seed_write(Zeroed(data, out.heap), out.ptr)
        st == for_grad_fn(NoPass(out.heap, cache[d], out.nodes), d, grad_fns[d],
                          rev(Len(grad_fns[d])))
        run == add_unary_grads(Zeroed(seeded, st.heap), st.reqs, <<>>)
    IN /\ Len(st.heap) <= MaxPtr + MaxGrads
       /\ heap' = st.heap
       /\ grads' = [grads EXCEPT ![d] = st.grads]
       /\ cache' = [cache EXCEPT ![d] = st.cache]
       /\ grad_fns' = [grad_fns EXCEPT ![d] = drain(@)]
       /\ data' = run.data
       /\ ret' = GradResult("backward_seeded", d, b, out, st, run.seen)
       /\ UNCHANGED <<count, graph, bufs>>

\* device.tape_mut().backward_seeded(&buf) for a live buffer of the device.
BackwardSeeded(d, b) ==
    /\ b \in bufs
    /\ b.dev = d
    /\ HasId(d, b)
    /\ Tape_backward_seeded(d, b)
    /\ UNCHANGED <<holders, loopVars, cellVars, cudaVars, pending, nograph, kernel_cache,
                   programs>>

\* device.cached(len) in a forward pass; the cache bounds the count.
ForwardCached(d, len) ==
    /\ Cardinality(bufs) < MaxBufs
    /\ Present(d, len) \/ Len(heap) < MaxPtr
    /\ Cache_get(d, len, {})
    /\ UNCHANGED <<holders, loopVars, tapeVars, cellVars, cudaVars, extVars>>

\* unary_ew(buf, ..) in a forward pass; the cache bounds the count.
ForwardUnaryEw(d, b) ==
    /\ b \in bufs
    /\ b.dev = d
    /\ HasId(d, b)
    /\ Held(d, b.len) \/ Cardinality(bufs) < MaxBufs
    /\ Len(grad_fns[d]) < MaxTape
    /\ Present(d, b.len) \/ Len(heap) < MaxPtr
    /\ Cache_get(d, b.len, {})
    /\ grad_fns' = [grad_fns EXCEPT ![d] =
                       Append(@, [x |-> id(d, b), o |-> Ident_new(b.len), fwd |-> b.ptr])]
    /\ UNCHANGED <<grads, holders, loopVars, cellVars, cudaVars, extVars>>

\* The end of a training iteration: the buffers of the forward pass go out of scope
\* and set_count(0) is called.
ForwardReset ==
    /\ count # 0
    /\ count' = 0
    /\ bufs' = {}
    /\ ret' = NoReturn
    /\ UNCHANGED <<cache, graph, heap, holders, loopVars, tapeVars, cellVars, cudaVars,
                   extVars>>

\* The buffers of the forward passes have more than one element.
SeededLens == Lens \ {0, 1}

\* Forward passes on the CPU, calls on its Gradients and seeded backward passes.
NextSeeded ==
    \/ \E len \in SeededLens : ForwardCached("CPU", len)
    \/ \E b \in bufs : ForwardUnaryEw("CPU", b)
    \/ ForwardReset
    \/ \E b \in bufs : GradGetLike("CPU", b)
    \/ \E b \in bufs : BackwardSeeded("CPU", b)

SpecSeeded == Init /\ [][NextSeeded]_vars

\* ---- repeated conversions of a CPU buffer ----
\* construct_buffer on a live CPU buffer, at whatever count the thread has reached;
\* the allocations bound the misses.
Convert(b) ==
    /\ b \in bufs
    /\ b.dev = "CPU"
    /\ Present("OpenCL", b.len) \/ b.flag = "None" \/ Len(heap) < MaxPtr
    /\ construct_buffer(b)
    /\ UNCHANGED <<holders, loopVars, tapeVars, cellVars, cudaVars, extVars>>

NextConvert ==
    \/ \E len \in Lens : Cached("CPU", len)
    \/ \E v \in 0..MaxCount : SetCount(v)
    \/ \E b \in bufs : DropBuffer(b)
    \/ \E b \in bufs : Convert(b)

SpecConvert == Init /\ [][NextConvert]_vars

\* ---- a backend that refuses an allocation ----
\* What a call hands back when the driver had no memory for it: the error, and the
\* number of times the call asked the driver.
RefusedResult(op, kind, e, tries) ==
    [op |-> op, kind |-> kind, hit |-> FALSE, err |-> e, buf |-> NullBuf, tries |-> tries]

\* clCreateBuffer / cuMemAlloc out of memory, for a size that is not 0.
driver_refuses(len) == IF len = 0 THEN "InvalidLength" ELSE "DriverError"

\* Cache::get on a miss whose Alloc::alloc fails: create_buffer(..).unwrap() and
\* cumalloc(len).unwrap() panic before add_node has touched the graph, the map or
\* the count.
Cache_get_refused(d, len) ==
    /\ CacheLookup(cache[d], Ident_new(len)) = {}
    /\ ret' = RefusedResult("get", "panic", driver_refuses(len), 1)
    /\ UNCHANGED <<count, cache, graph, heap, bufs>>

\* construct_buffer on a miss whose to_unified fails: the node has been added to the
\* graph when create_buffer returns the error, which `?` hands to the caller before
\* the insert and before bump_count. no_drop was moved into to_unified and is dropped.
construct_buffer_refused(no_drop) ==
    /\ no_drop.flag # "None"
    /\ CacheLookup(cache["OpenCL"], Ident_new(no_drop.len)) = {}
    /\ graph' = [graph EXCEPT !["OpenCL"] = Graph_add(@, no_drop.len, {})]
    /\ ret' = RefusedResult("construct_buffer", "err", driver_refuses(no_drop.len), 1)
    /\ bufs' = bufs \ {no_drop}
    /\ UNCHANGED <<count, cache, heap>>

CachedRefused(d, len) ==
    /\ Cache_get_refused(d, len)
    /\ UNCHANGED <<holders, loopVars, tapeVars, cellVars, cudaVars, extVars>>

ConstructRefused(b) ==
    /\ b \in bufs
    /\ b.dev = "CPU"
    /\ Len(graph["OpenCL"]) < MaxPtr
    /\ construct_buffer_refused(b)
    /\ UNCHANGED <<holders, loopVars, tapeVars, cellVars, cudaVars, extVars>>

RefusedLens == Lens \ {0}

NextRefuse ==
    \/ \E d \in CacheDevices, len \in Lens : Cached(d, len)
    \/ \E v \in 0..MaxCount : SetCount(v)
    \/ \E b \in bufs : DropBuffer(b)
    \/ \E b \in bufs : ConstructBuffer(b)
    \/ \E len \in RefusedLens : CachedRefused("OpenCL", len)
    \/ \E b \in bufs : ConstructRefused(b)

SpecRefuse == Init /\ [][NextRefuse]_vars

\* ---- buffers of the static API and the operations on them ----
\* Buffer::from(&[T]) and Buffer::from(&[T; N]): with_slice on the static CPU, then
\* graph().add_leaf(len).
StaticFromSlice(len) ==
    /\ Len(heap) < MaxPtr
    /\ Cardinality(bufs) < MaxBufs
    /\ OwnedBuffer("with_slice", "CPU", len, CPU_with_slice(len))
    /\ UNCHANGED <<holders, loopVars, tapeVars, cellVars, cudaVars, extVars>>

\* Buffer::from([T; N]) and Buffer::from(Vec<T>): with_slice / alloc_with_vec on the
\* static CPU; the node of the Buffer is Node::default() and the graph is not called.
StaticFromArray(len) ==
    LET res == CPU_with_slice(len)
        out == [ptr |-> Len(heap) + 1, host |-> 0, len |-> len, flag |-> "None",
                dev |-> "CPU", node |-> NoNode]
    IN /\ Len(heap) < MaxPtr
       /\ Cardinality(bufs) < MaxBufs
       /\ IF res # "ok"
          THEN /\ ret' = Failed("from_array", "panic", res)
               /\ UNCHANGED <<heap, bufs>>
          ELSE /\ heap' = malloc(heap, "CPU", len)
               /\ bufs' = bufs \cup {out}
               /\ ret' = Returned("from_array", out, FALSE)
       /\ UNCHANGED <<count, cache, graph, holders, loopVars, tapeVars, cellVars, cudaVars,
                      extVars>>

\* AddBuf::add(lhs, rhs) for CPU, as far as the graph goes:
\* Cache::get(self, min(lhs.len, rhs.len), (lhs.node.idx, rhs.node.idx)). With
\* rhs = lhs these are the length and the dependencies of AddBuf::relu(lhs).
StaticAdd(lhs, rhs) ==
    /\ lhs.dev = "CPU"
    /\ rhs.dev = "CPU"
    /\ count < MaxCount
    /\ Cardinality(bufs) < MaxBufs + 1
    /\ Present("CPU", Min(lhs.len, rhs.len)) \/ Len(heap) < MaxPtr
    /\ Cache_get("CPU", Min(lhs.len, rhs.len), {lhs.node, rhs.node})
    /\ UNCHANGED <<holders, loopVars, tapeVars, cellVars, cudaVars, extVars>>

NextStatic ==
    \/ \E len \in Lens : StaticFromSlice(len)
    \/ \E len \in Lens : StaticFromArray(len)
    \/ \E lhs \in bufs, rhs \in bufs : StaticAdd(lhs, rhs)
    \/ \E v \in 0..MaxCount : SetCount(v)
    \/ \E b \in bufs : DropBuffer(b)

SpecStatic == Init /\ [][NextStatic]_vars

\* ---- the borrows a library call makes ----
\* The cells of a device struct a call of the library borrows: cache, graph and tape,
\* the kernel cache, the module list of CUDA and the inner device of OpenCL.
PathCells == Cells \cup {"kernel_cache", "modules", "inner"}

\* The flags of the cells of device d as a call finds them.
Flags(d) == [c \in PathCells |-> IF c \in Cells THEN borrow[d][c] ELSE UNUSED]

\* One borrow or one drop of a guard on the flags; a refused borrow panics and the
\* walk ends there.
Step(w, st) ==
    LET c == st[2]
    IN IF st[1] = "borrow_mut"
       THEN LET r == RefCell_borrow_mut(w.flags[c])
            IN IF r.ok THEN [w EXCEPT !.flags[c] = r.flag]
               ELSE [w EXCEPT !.err = "BorrowMutError"]
       ELSE IF st[1] = "borrow"
       THEN LET r == RefCell_borrow(w.flags[c])
            IN IF r.ok THEN [w EXCEPT !.flags[c] = r.flag]
               ELSE [w EXCEPT !.err = "BorrowError"]
       ELSE IF st[1] = "drop_mut" THEN [w EXCEPT !.flags[c] = @ + 1]
       ELSE [w EXCEPT !.flags[c] = @ - 1]

RECURSIVE Walk(_, _)
Walk(w, path) ==
    IF path = <<>> \/ w.err # "" THEN w ELSE Walk(Step(w, Head(path)), Tail(path))

\* The error a call on device d ends with when it borrows along path: "" when every
\* borrow was granted.
BorrowError(d, path) == Walk([flags |-> Flags(d), err |-> ""], path).err

\* device.graph().add(..) / add_leaf(..): the RefMut is a temporary of the statement.
Path_graph_add == << <<"borrow_mut", "graph">>, <<"drop_mut", "graph">> >>

\* OpenCL::ctx() / device(): self.inner.borrow(), dropped with the statement.
Path_ctx == << <<"borrow", "inner">>, <<"drop", "inner">> >>

\* Cache::get: device.cache() is held for the call; on a miss the allocation (ctx() on
\* OpenCL) and the graph callback run under it.
Path_Cache_get(d, hit) ==
    << <<"borrow_mut", "cache">> >>
        \o (IF hit THEN <<>>
            ELSE (IF d = "OpenCL" THEN Path_ctx ELSE <<>>) \o Path_graph_add)
        \o << <<"drop_mut", "cache">> >>

\* to_unified: create_buffer(&device.ctx(), ..), then device.cache.borrow_mut() for the
\* insert.
Path_to_unified ==
    Path_ctx \o << <<"borrow_mut", "cache">>, <<"drop_mut", "cache">> >>

\* A construct_buffer whose Ref of the lookup lives to the end of the function.
Path_construct_buffer_held(flag, hit) ==
    IF flag = "None" THEN <<>>
    ELSE << <<"borrow", "cache">> >>
             \o (IF hit THEN <<>> ELSE Path_graph_add \o Path_to_unified)
             \o << <<"drop", "cache">> >>

\* construct_buffer: the Ref of device.cache.borrow() is a temporary of the if let and
\* is dropped where the if let ends; the graph and to_unified come after it.
Path_construct_buffer(flag, hit) ==
    IF flag = "None" THEN <<>>
    ELSE << <<"borrow", "cache">>, <<"drop", "cache">> >>
             \o (IF hit THEN <<>> ELSE Path_graph_add \o Path_to_unified)

\* fn_cache: device.kernel_cache.borrow_mut() is held for KernelCacheCU::kernel, which
\* pushes the loaded module with device.modules.borrow_mut().
Path_fn_cache(loaded) ==
    << <<"borrow_mut", "kernel_cache">> >>
        \o (IF loaded THEN << <<"borrow_mut", "modules">>, <<"drop_mut", "modules">> >>
            ELSE <<>>)
        \o << <<"drop_mut", "kernel_cache">> >>

\* KernelCacheCL::kernel_cache under the RefMut of the caller: on a miss ctx() and
\* device() borrow the inner device.
Path_kernel_cache(hit) ==
    << <<"borrow_mut", "kernel_cache">> >>
        \o (IF hit THEN <<>> ELSE Path_ctx \o Path_ctx)
        \o << <<"drop_mut", "kernel_cache">> >>

\* unary_ew: apply_fn takes its output from the cache, then self.tape_mut() for
\* add_grad_fn.
Path_unary_ew(d, hit) ==
    Path_Cache_get(d, hit) \o << <<"borrow_mut", "tape">>, <<"drop_mut", "tape">> >>

\* The closures of a pass, each fetching its forward buffer from the device cache
\* (get_double: device.get_like); the buffers of the Gradients are in a plain field.
RECURSIVE Path_closures(_, _)
Path_closures(d, n) ==
    IF n = 0 THEN <<>> ELSE Path_Cache_get(d, FALSE) \o Path_closures(d, n - 1)

\* device.tape_mut().backward(device): the RefMut of the tape is held for the pass.
Path_backward(d, n) ==
    << <<"borrow_mut", "tape">> >> \o Path_closures(d, n) \o << <<"drop_mut", "tape">> >>

\* What a call that panicked on a borrow leaves: the panic.
BorrowPanic(op, e) ==
    /\ ret' = Failed(op, "panic", e)
    /\ UNCHANGED <<count, cache, graph, heap, bufs>>

PathCached(d, len) ==
    LET e == BorrowError(d, Path_Cache_get(d, Present(d, len)))
    IN IF e = "" THEN ForwardCached(d, len)
       ELSE /\ BorrowPanic("get", e)
            /\ UNCHANGED <<holders, loopVars, tapeVars, cellVars, cudaVars, extVars>>

PathConstruct(b) ==
    LET e == BorrowError("OpenCL", Path_construct_buffer(b.flag, Present("OpenCL", b.len)))
    IN IF e = "" THEN Convert(b)
       ELSE /\ b \in bufs
            /\ b.dev = "CPU"
            /\ BorrowPanic("construct_buffer", e)
            /\ UNCHANGED <<holders, loopVars, tapeVars, cellVars, cudaVars, extVars>>

PathKernel(d, src, fn_name) ==
    LET hit == KernelLookup(kernel_cache[d], src) # {}
        e == BorrowError(d, IF d = "OpenCL" THEN Path_kernel_cache(hit)
                            ELSE Path_fn_cache(~hit /\ build_program(src) = "ok"
                                               /\ Module_function(src, fn_name) = "ok"))
    IN IF e = "" THEN KernelRequest(d, src, fn_name)
       ELSE /\ BorrowPanic("kernel", e)
            /\ UNCHANGED <<holders, loopVars, tapeVars, cellVars, cudaVars, extVars>>

PathUnaryEw(d, b) ==
    LET e == BorrowError(d, Path_unary_ew(d, Present(d, b.len)))
    IN IF e = "" THEN ForwardUnaryEw(d, b)
       ELSE /\ b \in bufs
            /\ b.dev = d
            /\ BorrowPanic("get", e)
            /\ UNCHANGED <<holders, loopVars, tapeVars, cellVars, cudaVars, extVars>>

PathBackward(d) ==
    LET e == BorrowError(d, Path_backward(d, Len(grad_fns[d])))
    IN IF e = "" THEN Backward(d)
       ELSE /\ BorrowPanic("backward", e)
            /\ UNCHANGED <<holders, loopVars, tapeVars, cellVars, cudaVars, extVars>>

NextPaths ==
    \/ \E len \in SeededLens : PathCached("CPU", len)
    \/ \E b \in bufs : PathConstruct(b)
    \/ \E src \in FnNames : PathKernel("CUDA", src, src)
    \/ \E b \in bufs : PathUnaryEw("OpenCL", b)
    \/ PathBackward("OpenCL")
    \/ ForwardReset

SpecPaths == Init /\ [][NextPaths]_vars

\* ---- the hit / miss contract of the cache ----
\* The pointers device d's cache stores under the Ident (count, len).
Stored(d, len) == {e.ptr : e \in {x \in cache[d] : x.ident = [idx |-> count, len |-> len]}}

\* C1: a get whose Ident is in the cache map returns a Buffer on exactly the
\* allocation stored at that Ident, with the stored length and the flag Cache.
C1_HitReturnsStored ==
    [][\A d \in CacheDevices, len \in Lens :
          (Cached(d, len) /\ Present(d, len)) =>
              /\ ret'.kind = "buffer"
              /\ ret'.buf.flag = "Cache"
              /\ ret'.buf.len = len
              /\ ret'.buf.dev = d
              /\ Stored(d, len) = {ret'.buf.ptr}
              /\ ret'.buf \in bufs']_vars

\* A get has hit and returned the allocation the cache stores.
C1_Witness ==
    /\ ret.op = "get"
    /\ ret.hit
    /\ ret.buf.flag = "Cache"
    /\ \E e \in cache[ret.buf.dev] : e.ptr = ret.buf.ptr /\ e.len = ret.buf.len

\* C2: a get whose Ident is absent allocates exactly once, for len elements, adds
\* exactly one graph node, inserts the new allocation at that Ident (the cache grows
\* by one entry and keeps the others) and returns it with flag Cache; the Ident is
\* then in the map, on the returned allocation, for the next get.
C2_MissAllocatesAndInserts ==
    [][\A d \in CacheDevices, len \in Lens \ {0} :
          (Cached(d, len) /\ ~Present(d, len)) =>
              /\ Len(heap') = Len(heap) + 1
              /\ heap'[Len(heap')] = [len |-> len, dev |-> d, frees |-> 0]
              /\ \A p \in 1..Len(heap) : heap'[p] = heap[p]
              /\ Len(graph'[d]) = Len(graph[d]) + 1
              /\ cache[d] \subseteq cache'[d]
              /\ Cardinality(cache'[d]) = Cardinality(cache[d]) + 1
              /\ \E e \in cache'[d] :
                    /\ e.ident = [idx |-> count, len |-> len]
                    /\ e.ptr = Len(heap')
                    /\ ret'.buf.ptr = e.ptr
              /\ ret'.kind = "buffer"
              /\ ret'.buf.flag = "Cache"
              /\ ret'.buf.len = len]_vars

\* A get has missed, and the allocation it returned is in the cache.
C2_Witness ==
    /\ ret.op = "get"
    /\ ret.kind = "buffer"
    /\ ~ret.hit
    /\ ret.buf.ptr = Len(heap)
    /\ \E e \in cache[ret.buf.dev] : e.ptr = ret.buf.ptr
    /\ Len(graph[ret.buf.dev]) > 0

\* C3: a hit, of get or of construct_buffer, makes no allocation and leaves the cache
\* map and the Graph unchanged; the Graph grows only in a step that allocates.
C3_HitChangesNothing ==
    /\ [][\A d \in CacheDevices, len \in Lens :
             (Cached(d, len) /\ Present(d, len)) =>
                 heap' = heap /\ cache' = cache /\ graph' = graph]_vars
    /\ [][\A b \in bufs :
             (ConstructBuffer(b) /\ b.flag # "None" /\ Present("OpenCL", b.len)) =>
                 heap' = heap /\ cache' = cache /\ graph' = graph]_vars
    /\ [][graph' # graph => Len(heap') = Len(heap) + 1]_vars

\* A hit happened while the cache and the graph were not empty.
C3_Witness ==
    /\ ret.hit
    /\ ret.op \in {"get", "construct_buffer"}
    /\ cache[ret.buf.dev] # {}
    /\ Len(graph[ret.buf.dev]) > 0

OneEntryPerIdent ==
    \A d \in Devices : \A e1, e2 \in cache[d] : e1.ident = e2.ident => e1 = e2

\* C4: every device cache holds at most one allocation per Ident, and a get returns
\* either the allocation stored at its Ident or one the call has just allocated and
\* inserted at that Ident.
C4_OneAllocationPerIdent ==
    /\ []OneEntryPerIdent
    /\ [][\A d \in CacheDevices, len \in Lens :
             (Cached(d, len) /\ ret'.kind = "buffer") =>
                 \/ ret'.buf.ptr \in Stored(d, len)
                 \/ /\ ret'.buf.ptr = Len(heap) + 1
                    /\ Len(heap') = Len(heap) + 1
                    /\ \E e \in cache'[d] : /\ e.ident = [idx |-> count, len |-> len]
                                            /\ e.ptr = ret'.buf.ptr]_vars

\* An entry was replaced by a re-insertion at its Ident, and a later get returned
\* the allocation that replaced it.
C4_Witness ==
    /\ ret.op = "get"
    /\ ret.hit
    /\ \E p \in 1..Len(heap) :
          /\ heap[p].frees > 0
          /\ p < ret.buf.ptr
          /\ heap[p].len = ret.buf.len
          /\ heap[p].dev = ret.buf.dev

\* ---- a slot whose length changes ----
\* The entries device d's cache stores at the current count under another length.
StaleAt(d, len) == {e \in cache[d] : e.ident.idx = count /\ e.ident.len # len}

C8_ReplacedStaysValid ==
    [][\A d \in Devices : \A e \in cache[d] :
          (e \notin cache'[d] /\ \E b \in bufs' : b.ptr = e.ptr /\ b.dev = d) =>
              heap'[e.ptr].frees = heap[e.ptr].frees]_vars

\* to_unified has replaced an entry and released its allocation, and a Buffer
\* returned earlier still points to the released allocation.
C8_Witness ==
    /\ ret.op = "to_unified"
    /\ \E b \in bufs :
          /\ b.dev = "OpenCL"
          /\ b.ptr # ret.buf.ptr
          /\ heap[b.ptr].frees > 0
          /\ \A e \in cache["OpenCL"] : e.ptr # b.ptr

\* ---- replay of an operation sequence ----
\* C5: in a loop that replays a sequence of cache-backed operations with the count
\* reset at each iteration boundary, the Buffer returned at a slot in iteration 2 and
\* later is on the allocation the same slot returned in iteration 1.
C5_ReplayAliasesFirstIteration ==
    (iter >= 2 /\ pc > 1 /\ ret.kind = "buffer") => ret.buf.ptr = first[pc - 1]

\* In iteration 2 a get hit the cache and returned an allocation that is not the one
\* its slot returned in iteration 1.
C5_Witness ==
    /\ iter = 2
    /\ pc > 1
    /\ ret.op = "get"
    /\ ret.hit
    /\ ret.buf.ptr # first[pc - 1]

\* C6: in such a loop every get of iteration 2 and later is a hit, and the number of
\* backend allocations and of cache entries stays what it was after iteration 1.
C6_SteadyStateAllocationFree ==
    iter >= 2 =>
        /\ Len(heap) = base.allocs
        /\ CacheEntries(cache) = base.entries
        /\ (ret.op = "get" /\ ret.kind = "buffer") => ret.hit

\* A get of iteration 2 missed and made an allocation iteration 1 had not made.
C6_Witness ==
    /\ iter = 2
    /\ ret.op = "get"
    /\ ~ret.hit
    /\ ret.kind = "buffer"
    /\ ret.buf.ptr > base.allocs

\* ---- zero-length requests ----
\* C9: on CPU, OpenCL and CUDA an allocation of 0 elements, a Buffer from an empty
\* slice or vector and a cached(0) fail with InvalidLength and leave no allocation
\* and no Buffer behind.
C9_ZeroLengthRejected ==
    [][\A d \in Devices :
          (\/ BufferNew(d, 0)
           \/ BufferFrom(d, 0)
           \/ BufferFromVec(d, 0)
           \/ DeviceCached(d, 0)) =>
              /\ ret'.kind = "panic"
              /\ ret'.err = "InvalidLength"
              /\ heap' = heap
              /\ bufs' = bufs
              /\ cache' = cache]_vars

\* A zero-length request went through to the driver and failed there, without the
\* InvalidLength check.
C9_Witness ==
    /\ ret.kind = "panic"
    /\ ret.err = "DriverError"
    /\ ret.op \in {"alloc", "with_slice", "alloc_with_vec", "get"}

\* ---- owned allocations ----
\* C10: an owned allocation is freed exactly once over any sequence of creation, copy
\* of handles and drop: never twice, and once when every holder is gone.
C10_OwnedFreedExactlyOnce ==
    \A p \in 1..Len(holders) :
        /\ heap[p].frees <= 1
        /\ holders[p] = 0 => heap[p].frees = 1

\* CPU::drop was called on two copies of one handle: the allocation was freed twice.
C10_Witness ==
    \E p \in 1..Len(holders) : heap[p].frees = 2 /\ holders[p] = 0

\* ---- drop of a cached buffer ----
\* Every allocation a cache holds an entry for has never been freed.
CacheEntriesLive ==
    \A d \in Devices : \A e \in cache[d] : e.ptr \in 1..Len(heap) /\ heap[e.ptr].frees = 0

\* C11: the drop of a Buffer with flag Cache frees nothing and leaves the cache map
\* unchanged; the allocations the cache holds stay live, so that a later get with
\* the same Ident hits and returns a live allocation.
C11_CachedDropKeepsAllocation ==
    /\ [][\A b \in bufs :
             (DropBuffer(b) /\ b.flag = "Cache") => heap' = heap /\ cache' = cache]_vars
    /\ []CacheEntriesLive
    /\ [][\A d \in CacheDevices, len \in Lens :
             (Cached(d, len) /\ Present(d, len)) =>
                 /\ ret'.hit
                 /\ ret'.buf.ptr \in 1..Len(heap')
                 /\ heap'[ret'.buf.ptr].frees = 0]_vars

\* Every Buffer has been dropped, the last one by a drop, and a cache still holds a
\* live allocation.
C11_Witness ==
    /\ bufs = {}
    /\ ret = NoReturn
    /\ \E d \in Devices : \E e \in cache[d] : heap[e.ptr].frees = 0

\* ---- order of a backward pass ----
\* C12: backward() invokes the closures of the tape in strict reverse of their insertion
\* order, one after the other: the positions it runs are n, n-1, .., 1, and the gradient
\* requests of the pass are those of closure n, then those of closure n-1, and so on.
C12_BackwardReverseOrder ==
    ret.op = "backward" =>
        /\ ret.invoked = [k \in 1..ret.n |-> ret.n + 1 - k]
        /\ Len(ret.reqs) = 2 * ret.n
        /\ \A k \in 1..ret.n :
              /\ ret.reqs[2 * k - 1].ident = ret.fns[ret.n + 1 - k].x
              /\ ret.reqs[2 * k].ident = ret.fns[ret.n + 1 - k].o

\* A backward pass has run two closures that differ.
C12_Witness ==
    /\ ret.op = "backward"
    /\ ret.n >= 2
    /\ ret.fns[1] # ret.fns[2]

\* ---- a backward pass drains the tape ----
\* C13: backward() invokes every closure that is on the tape when it starts exactly
\* once and leaves grad_fns empty; a backward() on the tape it left invokes nothing; the
\* entries of the gradient cache are kept by every pass.
C13_BackwardDrains ==
    [][\A d \in CacheDevices :
          Backward(d) =>
              /\ grad_fns'[d] = <<>>
              /\ Len(ret'.invoked) = Len(grad_fns[d])
              /\ \A i \in 1..Len(grad_fns[d]) :
                    Cardinality({k \in 1..Len(ret'.invoked) : ret'.invoked[k] = i}) = 1
              /\ grads[d] \subseteq grads'[d]
              /\ (ret.op = "backward" /\ ret.dev = d) =>
                     ret'.invoked = <<>> /\ grads' = grads]_vars

\* A second backward pass right after one that ran closures and filled the gradient
\* cache.
C13_Witness ==
    /\ ret.op = "backward"
    /\ ret.n = 0
    /\ grads[ret.dev] # {}
    /\ grad_fns[ret.dev] = <<>>

\* ---- backward on an empty tape ----
\* C16: backward() on a tape without closures returns normally, invokes nothing,
\* allocates nothing and leaves tape, gradient cache, device cache and graph unchanged.
C16_EmptyBackwardNoOp ==
    [][\A d \in CacheDevices :
          (Backward(d) /\ grad_fns[d] = <<>>) =>
              /\ ret'.kind = "unit"
              /\ ret'.err = ""
              /\ ret'.invoked = <<>>
              /\ UNCHANGED <<heap, cache, graph, grad_fns, grads, count, bufs>>]_vars

\* backward() has run on a tape that never held a closure, on a device with cache
\* entries.
C16_Witness ==
    /\ ret.op = "backward"
    /\ ret.n = 0
    /\ grads[ret.dev] = {}
    /\ cache[ret.dev] # {}

\* ---- gradient buffers of a backward pass ----
\* C14: in a backward pass the gradient cache allocates at most once per Ident: of the
\* requests for one Ident only the first can miss, every later one hits and returns
\* the pointer of the first, and that pointer is the one the gradient cache stores.
C14_OneGradientPerIdent ==
    /\ \A d \in CacheDevices : \A e1, e2 \in grads[d] : e1.ident = e2.ident => e1 = e2
    /\ ret.op = "backward" =>
          /\ \A i, j \in 1..Len(ret.reqs) :
                (i < j /\ ret.reqs[i].ident = ret.reqs[j].ident) =>
                    ret.reqs[j].hit /\ ret.reqs[j].ptr = ret.reqs[i].ptr
          /\ \A i \in 1..Len(ret.reqs) :
                \E e \in grads[ret.dev] :
                    e.ident = ret.reqs[i].ident /\ e.ptr = ret.reqs[i].ptr

\* Two closures of one pass asked for the gradient of the same Ident, and the first
\* request allocated it.
C14_Witness ==
    /\ ret.op = "backward"
    /\ \E i, j \in 1..Len(ret.reqs) :
          /\ (i + 1) \div 2 < (j + 1) \div 2
          /\ ret.reqs[i].ident = ret.reqs[j].ident
          /\ ~ret.reqs[i].hit

\* ---- closures and replaced allocations ----
\* C15: every allocation a closure reads or writes during backward() is live: the
\* input is the allocation the device cache stores for the captured Ident when the
\* closure runs, also when the allocation of the forward pass has been replaced.
C15_ClosuresAccessLive ==
    ret.op = "backward" =>
        /\ \A p \in ret.ptrs : p \in 1..Len(heap) /\ heap[p].frees = 0
        /\ \A k \in 1..ret.n :
              \E e \in cache[ret.dev] : e.ident = ret.fns[k].x /\ e.ptr \in ret.ptrs

\* A closure has run whose input allocation of the forward pass had been replaced and
\* freed.
C15_Witness ==
    /\ ret.op = "backward"
    /\ \E k \in 1..ret.n :
          /\ heap[ret.fns[k].fwd].frees > 0
          /\ ret.fns[k].fwd \notin ret.ptrs

\* ---- the identity counter ----
\* C17: every call that produces a buffer takes the count as its Ident and advances
\* the count by exactly 1, so that the next call receives a larger count.
C17_CountAdvancesByOne ==
    [][(ret'.kind = "buffer" /\ ret'.op \in {"get", "construct_buffer"}) =>
           count' = count + 1]_vars

\* construct_buffer has returned the entry of its Ident.
C17_Witness ==
    /\ ret.op = "construct_buffer"
    /\ ret.kind = "buffer"
    /\ ret.hit

\* C18: after the reset at the start of an iteration the n-th buffer-producing call of
\* the iteration receives the count n - 1 (the reset value 0 plus n - 1).
C18_NthCallGetsNthCount == count = pc - 1

\* The second iteration of a loop has made a call.
C18_Witness ==
    /\ iter = 2
    /\ pc > 1

\* ---- exclusive access to the state of a device ----
\* Of each RefCell at most one RefMut is alive, and none while a Ref is.
GuardsExclusive ==
    \A d \in Devices, c \in Cells :
        /\ refs[d][c].mut <= 1
        /\ refs[d][c].mut = 1 => refs[d][c].shared = 0

\* C19: of each RefCell of a device (cache, graph, tape) at most one RefMut is alive,
\* and none while a Ref is; a borrow_mut of a cell that is borrowed fails at once and
\* leaves the cell and its guards as they are.
C19_ExclusiveBorrow ==
    /\ []GuardsExclusive
    /\ [][\A d \in Devices, c \in Cells :
             (BorrowMut(d, c) /\ refs[d][c].mut + refs[d][c].shared > 0) =>
                 /\ ret'.kind = "panic"
                 /\ ret'.err = "BorrowMutError"
                 /\ refs' = refs
                 /\ borrow' = borrow]_vars

\* A borrow_mut of a cell whose RefMut is alive has failed.
C19_Witness ==
    /\ ret.kind = "panic"
    /\ ret.err = "BorrowMutError"
    /\ \E d \in Devices : refs[d][ret.op].mut = 1

\* ---- independence of device instances ----
\* The device instances of the thread.
Instances == CacheDevices \cup CudaInstances

\* The cache an instance's gets use, its graph and its tape, taken from the given
\* values of the variables.
StateOf(x, c, g, fns, gr, cc) ==
    IF x \in CudaInstances THEN <<cc>> ELSE <<c[x], g[x], fns[x], gr[x]>>

\* The step is an operation issued on instance x.
IssuedOn(x) ==
    \/ /\ x \in CacheDevices
       /\ \/ \E len \in Lens : Cached(x, len)
          \/ \E b \in bufs : b.dev = x /\ DropBuffer(b)
          \/ \E b \in bufs : UnaryEw(x, b)
          \/ Backward(x)
          \/ x = "OpenCL" /\ \E b \in bufs : ConstructBuffer(b)
    \/ /\ x \in CudaInstances
       /\ \E len \in Lens : CudaBuffer_new(x, len) \/ CudaCached(x, len)

\* No entry is in the caches of two instances.
NoSharedEntry ==
    \A x, y \in Instances :
        x # y => StateOf(x, cache, graph, grad_fns, grads, CUDA_CACHE)[1]
                     \cap StateOf(y, cache, graph, grad_fns, grads, CUDA_CACHE)[1] = {}

\* C20: an operation issued on one device instance leaves the cache, the graph and the
\* tape of every other instance of the thread unchanged, and no cache entry belongs to
\* two instances.
C20_InstancesIndependent ==
    /\ [][\A x \in Instances :
             IssuedOn(x) =>
                 \A y \in Instances \ {x} :
                     StateOf(y, cache', graph', grad_fns', grads', CUDA_CACHE')
                         = StateOf(y, cache, graph, grad_fns, grads, CUDA_CACHE)]_vars
    /\ []NoSharedEntry

\* A get on the instance cu2 has returned an allocation made on the instance cu1.
C20_Witness ==
    /\ ret.op = "get"
    /\ ret.hit
    /\ ret.buf.dev = "cu2"
    /\ ret.buf.ptr \in ptrs["cu1"]

\* ---- reads and device-side work ----
\* C21: on every device a read returns the buffer's elements as they are after all
\* the work enqueued on that device before the read has completed; no command is
\* left waiting when the read returns.
C21_ReadAfterEnqueuedWork ==
    [][\A b \in bufs :
          (ret'.op = "read" /\ ret'.buf = b /\ Read(b)) =>
              /\ ret'.vec = complete(data, pending[b.dev])[b.ptr]
              /\ pending'[b.dev] = <<>>]_vars

\* A read on CUDA that had to wait for a kernel which changed what it returns.
C21_Witness ==
    /\ ret.op = "read"
    /\ ret.buf.dev = "CUDA"
    /\ ret.waited
    /\ \E v \in Vals \ {0} : ret.vec = [i \in 1..Len(ret.vec) |-> v]

C23_TeardownEmptiesCache ==
    [][/\ OpenCL_reset => cache'["OpenCL"] = {}
       /\ \A d \in Devices : Device_drop(d) => cache'[d] = {}
       /\ CPU_dealloc_cache => cache'["CPU"] = {}]_vars

\* dealloc_cache has returned and the cache of the CPU still holds an entry.
C23_Witness ==
    /\ ret.op = "dealloc_cache"
    /\ cache["CPU"] # {}

\* ---- construct_buffer on a buffer the cache does not own ----
\* C24: construct_buffer on a CPU buffer with the flag None returns ConstructError;
\* no allocation is made, no Buffer of the OpenCL device appears, and the graph, the
\* cache and the count of the OpenCL device are as before.
C24_OwnedBufferRejected ==
    [][\A b \in bufs :
          (ConstructBuffer(b) /\ b.flag = "None") =>
              /\ ret'.kind = "err"
              /\ ret'.err = "ConstructError"
              /\ Len(heap') = Len(heap)
              /\ {x \in bufs' : x.dev = "OpenCL"} = {x \in bufs : x.dev = "OpenCL"}
              /\ graph' = graph
              /\ cache' = cache
              /\ count' = count]_vars

\* construct_buffer has rejected an owned buffer while the OpenCL cache held an entry
\* under the Ident of the call.
C24_Witness ==
    /\ ret.op = "construct_buffer"
    /\ ret.err = "ConstructError"
    /\ \E e \in cache["OpenCL"] : e.ident.idx = count

\* ---- kernel caching ----
\* C25: a request for a source the kernel cache of the device holds returns the stored
\* handle and compiles nothing; a request that succeeds leaves the cache with the
\* entries it had and the one of its source; the cache never holds two entries of one
\* source, nor one handle under two sources.
C25_KernelCached ==
    [][\A d \in KernelDevices, src \in Sources, fn_name \in FnNames :
          KernelRequest(d, src, fn_name) =>
              /\ \A e \in kernel_cache[d] :
                    e.src = src => /\ ret'.kind = "kernel"
                                   /\ ret'.kernel = e.kernel
                                   /\ programs' = programs
                                   /\ kernel_cache' = kernel_cache
              /\ ret'.kind = "kernel" =>
                    kernel_cache'[d] = kernel_cache[d] \cup {[src |-> src, kernel |-> ret'.kernel]}
              /\ ret'.kind # "kernel" => kernel_cache' = kernel_cache
              /\ \A e1, e2 \in kernel_cache'[d] : (e1.src = e2.src) <=> (e1.kernel = e2.kernel)]_vars

\* A repeated request found its kernel while the cache of the device held two sources.
C25_Witness ==
    /\ ret.op = "kernel"
    /\ ret.hit
    /\ Cardinality(kernel_cache[ret.dev]) = 2
    /\ Cardinality({e.kernel : e \in kernel_cache[ret.dev]}) = 2

\* ---- what a read returns ----
\* C26: the read that follows Buffer::from(d) or write(d) on the same Buffer returns
\* exactly d, and a read that follows a read of the same Buffer returns what that one
\* returned: reading does not change the elements.
C26_ReadWriteRoundTrip ==
    [][\A b \in bufs :
          (ret'.op = "read" /\ ret.op \in {"with_slice", "write", "read"} /\ ret.buf = b
              /\ ret'.buf = b /\ Read(b)) =>
              /\ ret'.vec = ret.vec
              /\ complete(data', pending'[b.dev])[b.ptr] = ret.vec]_vars

\* A read has returned the slice of two different elements written before on a
\* device other than the CPU.
C26_Witness ==
    /\ ret.op = "read"
    /\ ret.buf.dev # "CPU"
    /\ ret.vec = <<1, 0>>
    /\ data[ret.buf.ptr] = <<1, 0>>

\* ---- clear ----
\* C27: clear leaves the Buffer (length, allocation, flag, node), the set of Buffers
\* and the allocations as they were, every element of the buffer is zero once the
\* device has run the call, so the read that follows returns zeros only, and a clear
\* that follows a clear changes no element.
C27_ClearZeroes ==
    [][\A b \in bufs :
          /\ (ret'.op = "clear" /\ ret'.buf = b /\ Clear(b)) =>
                /\ bufs' = bufs /\ heap' = heap /\ graph' = graph
                /\ Len(data') = Len(data)
                /\ \A p \in DOMAIN data : p # b.ptr => data'[p] = data[p]
                /\ complete(data', pending'[b.dev])[b.ptr] = Zeros(b.len)
                /\ (ret.op = "clear" /\ ret.buf = b) =>
                       complete(data', pending'[b.dev]) = complete(data, pending[b.dev])
          /\ (ret'.op = "read" /\ ret.op = "clear" /\ ret.buf = b /\ Read(b)) =>
                /\ ret'.vec = Zeros(b.len)
                /\ Len(ret'.vec) = b.len]_vars

\* clear has been called on a buffer of two elements that holds a non-zero element:
\* the kernel is on the stream, and the buffer is zero once it has run.
C27_Witness ==
    /\ ret.op = "clear"
    /\ ret.buf.len = 2
    /\ data[ret.buf.ptr] = <<1, 0>>
    /\ complete(data, pending[ret.buf.dev])[ret.buf.ptr] = <<0, 0>>

\* ---- double free and use after free ----
\* C28: no allocation is passed to the backend free call more than once, and none
\* that a cache entry or a live Buffer refers to has been freed.
C28_NoDoubleFreeNoUseAfterFree ==
    /\ \A p \in DOMAIN heap : heap[p].frees <= 1
    /\ \A d \in Devices : \A e \in cache[d] : heap[e.ptr].frees = 0
    /\ \A b \in bufs : heap[b.ptr].frees = 0

\* A live Buffer points to an allocation that has been freed; another allocation has
\* been freed that no Buffer points to.
C28_Witness ==
    /\ \E b \in bufs : heap[b.ptr].frees = 1
    /\ \E p \in DOMAIN heap :
          /\ heap[p].frees = 1
          /\ \A b \in bufs : b.ptr # p

\* ---- hits and misses advance the count alike ----
\* C29: every call of a replayed sequence that returns a buffer, a hit as well as a
\* miss, cached as well as construct_buffer, leaves the count one higher than it found
\* it, and in a replay it finds the count the same call position found in the first
\* iteration (the position less one).
C29_HitAndMissAdvanceAlike ==
    [][(pc' = pc + 1 /\ ret'.kind = "buffer") =>
           /\ count' = count + 1
           /\ iter > 1 => count = pc - 1]_vars

\* In a replay construct_buffer has found the entry it inserted in the first iteration.
C29_Witness ==
    /\ iter > 1
    /\ pc > 1
    /\ prog[pc - 1].op = "construct_buffer"
    /\ ret.kind = "buffer"
    /\ ret.hit

\* ---- the Idents of calls on several devices ----
\* C30 as stated: the slot a call addresses is decided by the calls made before it on
\* its own device; in a first pass it is the number of those calls.
C30_OwnSequenceDecidesSlot ==
    [][(pc' = pc + 1 /\ ret'.kind = "buffer" /\ iter = 1) =>
           \E e \in cache'[prog[pc].dev] :
               /\ e.ptr = ret'.buf.ptr
               /\ e.ident.idx = Cardinality({j \in 1..(pc - 1) : prog[j].dev = prog[pc].dev})]_vars

\* C30: the slot a call addresses is the one of the count of the thread, whichever
\* devices the calls before it were made on; in a first pass it is the number of all
\* the calls made before it. The call changes the cache of its own device only.
C30_OneCountForAllDevices ==
    [][(pc' = pc + 1 /\ ret'.kind = "buffer") =>
           /\ \E e \in cache'[prog[pc].dev] :
                 /\ e.ptr = ret'.buf.ptr
                 /\ e.ident.idx = count
           /\ \A d \in Devices \ {prog[pc].dev} : cache'[d] = cache[d]
           /\ iter = 1 => count = pc - 1]_vars

\* In the first pass construct_buffer, the first call on the OpenCL device, has
\* stored its entry in slot 1: one call was made on the CPU before it.
C30_Witness ==
    /\ iter = 1
    /\ pc = 3
    /\ prog[1].dev = "CPU"
    /\ prog[2].op = "construct_buffer"
    /\ \E e \in cache["OpenCL"] : e.ptr = ret.buf.ptr /\ e.ident.idx = 1

\* ---- Idents and the memory behind them ----
\* C31: within the cache of one device two entries with different Idents are on
\* different memory (the host memory an OpenCL buffer is bound to, the backend
\* allocation otherwise), so two live Buffers of a device that were returned under
\* different Idents share no memory.
C31_IdentsNeverShareMemory ==
    /\ \A d \in Devices : \A e1, e2 \in cache[d] :
          e1.ident # e2.ident =>
              /\ e1.ptr # e2.ptr
              /\ e1.host # 0 => e1.host # e2.host
    /\ \A b1, b2 \in bufs :
          (b1.dev = b2.dev /\ b1.ptr # b2.ptr /\ b1.host # 0) => b1.host # b2.host

\* Two live OpenCL Buffers, returned under the Idents of count 0 and count 1, are
\* bound to the same host memory.
C31_Witness ==
    \E e1, e2 \in cache["OpenCL"] :
        /\ e1.ident.idx = 0 /\ e2.ident.idx = 1
        /\ e1.host = e2.host /\ e1.host # 0
        /\ \E b1, b2 \in bufs : b1.ptr = e1.ptr /\ b2.ptr = e2.ptr

\* ---- the gradient cache and the cache of the device ----
\* C32: a lookup in the Gradients of a tape (get_like on a Buffer, and the lookups of
\* a seeded backward pass) returns a buffer that is not the forward buffer of the
\* Ident and is on no allocation of the device cache; it leaves the device cache as
\* it is, adds no graph node and leaves the count alone.
C32_GradientCacheSeparate ==
    [][\A b \in bufs :
          (ret'.op \in {"get_like", "backward_seeded"} /\ ret'.buf = b
              /\ (GradGetLike("CPU", b) \/ BackwardSeeded("CPU", b))) =>
              /\ ret'.ptr # b.ptr
              /\ \A e \in cache'["CPU"] :
                    /\ e.ptr # ret'.ptr
                    /\ \A g \in grads'["CPU"] : g.ptr # e.ptr
              /\ cache' = cache
              /\ graph' = graph
              /\ count' = count]_vars

\* get_like has allocated the gradient buffer of an Ident under which the device
\* cache stores the forward buffer.
C32_Witness ==
    /\ ret.op = "get_like"
    /\ ~ret.hit
    /\ \E e \in cache["CPU"], g \in grads["CPU"] :
          /\ e.ident = g.ident
          /\ g.ptr = ret.ptr
          /\ e.ptr = ret.buf.ptr

\* ---- the seed of a backward pass ----
\* C33: backward_seeded(output) on a tape with closures invokes all of them, and the
\* closure added last, whose output is output, reads an output gradient of ones only,
\* as long as output; that gradient is the buffer the Gradients store under output's
\* Ident.
C33_SeededWithOnes ==
    [][\A b \in bufs :
          (ret'.op = "backward_seeded" /\ ret'.buf = b /\ grad_fns["CPU"] # <<>>
              /\ BackwardSeeded("CPU", b)) =>
              LET last == grad_fns["CPU"][Len(grad_fns["CPU"])]
              IN /\ ret'.n = Len(grad_fns["CPU"])
                 /\ \E g \in grads'["CPU"] :
                       /\ g.ident = id("CPU", b)
                       /\ g.ptr = ret'.ptr
                       /\ heap'[g.ptr].len = b.len
                 /\ last.o = id("CPU", b) =>
                       /\ ret'.seen = <<Ones(b.len)>>
                       /\ Len(ret'.seen[1]) = b.len]_vars

\* A seeded pass over two closures has found the gradient buffer of its output in the
\* Gradients, left there by an earlier pass, and the closure added last read ones.
C33_Witness ==
    /\ ret.op = "backward_seeded"
    /\ ret.n = 2
    /\ ret.hit
    /\ ret.seen = <<Ones(ret.buf.len)>>
    /\ data[ret.ptr] # Zeros(ret.buf.len)

\* ---- a seeded pass on an empty tape ----
\* C34: backward_seeded(output) on a tape without closures invokes nothing, makes no
\* allocation and leaves the gradient cache and the elements of its buffers as they
\* are.
C34_EmptySeededNoOp ==
    [][\A b \in bufs :
          (ret'.op = "backward_seeded" /\ ret'.buf = b /\ grad_fns["CPU"] = <<>>
              /\ BackwardSeeded("CPU", b)) =>
              /\ ret'.n = 0
              /\ heap' = heap
              /\ grads' = grads
              /\ Zeroed(data', heap') = Zeroed(data, heap)]_vars

\* A seeded pass on a tape without closures has allocated the gradient buffer of its
\* output and filled it with ones.
C34_Witness ==
    /\ ret.op = "backward_seeded"
    /\ ret.n = 0
    /\ ~ret.hit
    /\ \E g \in grads["CPU"] : g.ptr = ret.ptr /\ data[g.ptr] = Ones(ret.buf.len)

\* ---- converting a buffer twice ----
\* C35: construct_buffer on a CPU buffer of the cache that has been converted before
\* returns the OpenCL entry the first conversion made (its OpenCL pointer, the host
\* pointer of the buffer and its node) and adds no OpenCL buffer, graph node or cache
\* entry.
C35_SecondConversionReturnsFirst ==
    [][\A b \in bufs :
          (ret'.op = "construct_buffer" /\ b.dev = "CPU" /\ b.flag = "Cache"
              /\ (\E e \in cache["OpenCL"] : e.host = b.ptr) /\ Convert(b)) =>
              /\ \E e \in cache["OpenCL"] :
                    /\ e.host = b.ptr
                    /\ ret'.buf.ptr = e.ptr
                    /\ ret'.buf.host = e.host
                    /\ ret'.buf.node = e.node
              /\ heap' = heap
              /\ graph' = graph
              /\ cache' = cache]_vars

\* A second conversion of a CPU buffer has made a second OpenCL buffer on its memory.
C35_Witness ==
    /\ ret.op = "construct_buffer"
    /\ ret.kind = "buffer"
    /\ ~ret.hit
    /\ \E e \in cache["OpenCL"] : e.host = ret.buf.host /\ e.ptr # ret.buf.ptr

\* ---- allocation failures ----
\* C36: a call whose allocation the backend refuses on a cache miss has asked the
\* allocator once, hands the failure to its caller, and leaves the cache map, the
\* graph and the count as they were before the call.
C36_RefusalLeavesNoTrace ==
    [][ret'.err = "DriverError" =>
          /\ ret'.tries = 1
          /\ ret'.kind \in {"panic", "err"}
          /\ cache' = cache
          /\ graph' = graph
          /\ count' = count]_vars

\* to_unified has failed inside construct_buffer: the OpenCL graph holds a node that
\* no entry of the OpenCL cache carries.
C36_Witness ==
    /\ ret.op = "construct_buffer"
    /\ ret.err = "DriverError"
    /\ \E n \in 1..Len(graph["OpenCL"]) :
          \A e \in cache["OpenCL"] : e.node # graph["OpenCL"][n].idx

\* ---- the graph grows at its end ----
\* C37: a call that changes a graph appends exactly one node to it, whose idx is
\* greater than the idx of every node the graph held and is the node of the buffer
\* the call returns; the nodes the graph held stay in their places, unchanged.
C37_GraphAppendOnly ==
    [][\A d \in DOMAIN graph :
          graph'[d] # graph[d] =>
              LET old == graph[d]
                  new == graph'[d]
              IN /\ Len(new) = Len(old) + 1
                 /\ SubSeq(new, 1, Len(old)) = old
                 /\ \A n \in 1..Len(old) : old[n].idx < new[Len(new)].idx
                 /\ ret'.buf.node = new[Len(new)].idx]_vars

\* An operation has added its node, with a dependency, behind the nodes of its operands.
C37_Witness ==
    /\ Len(graph["CPU"]) >= 3
    /\ ret.op = "get"
    /\ ~ret.hit
    /\ ret.buf.node = Len(graph["CPU"]) - 1
    /\ graph["CPU"][Len(graph["CPU"])].deps # {}

\* ---- dependencies point backwards ----
\* C38: the node a buffer creation adds is a leaf, with no dependencies, and every
\* dependency of a node of a graph is the idx of a node that stands before it in the
\* graph, smaller than the idx of the node itself.
C38_DepsAreEarlierNodes ==
    [][\A d \in DOMAIN graph :
          /\ (graph'[d] # graph[d] /\ ret'.op \in {"with_slice", "from_array"}) =>
                graph'[d][Len(graph'[d])].deps = {}
          /\ \A n \in 1..Len(graph'[d]) : \A dep \in graph'[d][n].deps :
                /\ dep < graph'[d][n].idx
                /\ \E m \in 1..(n - 1) : graph'[d][m].idx = dep]_vars

\* An operation on a buffer made from an array has added a node to the graph.
C38_Witness ==
    /\ ret.op = "get"
    /\ ~ret.hit
    /\ graph["CPU"] # <<>>
    /\ NoNode \in graph["CPU"][Len(graph["CPU"])].deps

\* ---- no call borrows a cell it holds ----
\* C39: no call of the library (a get with its graph callback, construct_buffer with
\* to_unified, a kernel request, unary_ew, a backward pass with its closures) ends in
\* the panic of a refused borrow, and the cells of every device are unused between
\* the calls.
C39_NoDoubleBorrow ==
    /\ ret.err \notin {"BorrowMutError", "BorrowError"}
    /\ \A d \in Devices, c \in Cells : borrow[d][c] = UNUSED

\* A backward pass has run a closure under the RefMut of the tape, and the closure
\* has been through the cache and the graph of the device.
C39_Witness ==
    /\ ret.op = "backward"
    /\ ret.n > 0
    /\ ret.err = ""
    /\ \E d \in Devices : graph[d] # <<>> /\ cache[d] # {} /\ programs # <<>>

\* ---- the kernel of the entry point ----
\* C40: the handle a kernel request returns is a handle of the program compiled from
\* the requested source and denotes the requested entry point, also when the source
\* is in the cache from a request for another entry point.
C40_HandleOfEntryPoint ==
    (ret.op = "kernel" /\ ret.kind = "kernel") =>
        /\ programs[ret.kernel].src = ret.src
        /\ ret.fn = ret.asked

\* A request has found its source in the cache, stored by a request for another
\* entry point.
C40_Witness ==
    /\ ret.op = "kernel"
    /\ ret.kind = "kernel"
    /\ ret.hit
    /\ ret.src = TwoKernels
    /\ ret.fn # ret.asked

====
